---- MODULE Spec2Model ----
(***************************************************************************)
(* Acquisition / calibration / reflectance pipeline of the two-channel     *)
(* spectrometer controller (core/analysis.py, core/models.py,              *)
(* app/threads.py, ui/controllers.py).                                     *)
(*                                                                         *)
(* Wavelengths are integers in units of 0.001 nm, counts are finite        *)
(* integers.  A quotient is kept as the pair [num, den] and compared by    *)
(* cross-multiplication; NaN is the not-a-number sentinel; float rounding  *)
(* is not modelled.                                                        *)
(***************************************************************************)
EXTENDS Integers, Sequences, FiniteSets, TLC

\* Python's None (an absent Optional value)
None == [absent |-> TRUE]
\* np.nan, the not-a-number sentinel, kept as the quotient 0/0
NaN  == [num |-> 0, den |-> 0]

Channels == {"VIS", "NIR"}
Other(ch) == IF ch = "VIS" THEN "NIR" ELSE "VIS"

\* bound: longest wavelength grid / count vector drawn as an input
MaxLen == 2
\* bound: number of user commands in one exploration of the session
MaxCmds == 5

Abs(x) == IF x < 0 THEN -x ELSE x

SeqsUpTo(S, n) == UNION {[1..k -> S] : k \in 1..n}

(***************************************************************************)
(* core/analysis.py                                                        *)
(***************************************************************************)

\* numpy.allclose defaults used by compute_reflectance: rtol = 1e-5,
\* atol = 1e-8 nm.  In units of 0.001 nm the test |a-b| <= atol + rtol*|b|
\* reads |A-B| * RTOL_INV <= ATOL_SCALED + |B| with ATOL_SCALED = 1.
RTOL_INV    == 100000
ATOL_SCALED == 1

isclose(a, b) == Abs(a - b) * RTOL_INV <= ATOL_SCALED + Abs(b)

\* np.allclose(x, y) for two grids of the same shape
allclose(x, y) == \A i \in 1..Len(x) : isclose(x[i], y[i])

\* num / den of two finite counts, kept as an exact quotient
fdiv(n, d) == [num |-> n, den |-> d]

\* faulty variant: a zero denominator is not masked (numpy would give inf)
refl_at_unmasked(s, r, d) == fdiv(s - d, r - d)

\* np.where(den != 0, num / den, np.nan) at one index
refl_at(s, r, d) ==
    LET num == s - d
        den == r - d
    IN  IF den # 0 THEN fdiv(num, den) ELSE NaN

\* faulty variant: the values of the grids are compared exactly
grids_match_exact(lam_s, lam_r, lam_d) == lam_s = lam_r /\ lam_s = lam_d

\* np.allclose(lam_s, lam_r) and np.allclose(lam_s, lam_d)
grids_match(lam_s, lam_r, lam_d) == allclose(lam_s, lam_r) /\ allclose(lam_s, lam_d)

RaisedShape  == [ok |-> FALSE, err |-> "shape mismatch"]
RaisedValues == [ok |-> FALSE, err |-> "values mismatch"]
RaisedOperands == [ok |-> FALSE, err |-> "operands could not be broadcast"]

compute_reflectance(sample, reference, dark) ==
    LET lam_s == sample.wavelength_nm
        lam_r == reference.wavelength_nm
        lam_d == dark.wavelength_nm
    IN  IF Len(lam_s) # Len(lam_r) \/ Len(lam_s) # Len(lam_d)
        THEN RaisedShape
        ELSE IF ~ grids_match(lam_s, lam_r, lam_d)
        THEN RaisedValues
        ELSE IF Len(sample.counts) # Len(dark.counts)
                \/ Len(reference.counts) # Len(dark.counts)
        THEN RaisedOperands
        ELSE [ok   |-> TRUE,
              err  |-> "",
              lam  |-> lam_s,
              refl |-> [i \in 1..Len(dark.counts) |->
                          refl_at(sample.counts[i], reference.counts[i],
                                     dark.counts[i])]]

\* largest element of a non-empty sequence (np.nanmax on finite values)
nanmax(q) == CHOOSE m \in {q[i] : i \in 1..Len(q)} : \A i \in 1..Len(q) : q[i] <= m

FULL_SCALE_COUNTS == 16200

\* a one-dimensional np.ndarray of finite values
ndarray(q) == [data |-> q]

RaisedEmpty == [ok |-> FALSE, err |-> "ValueError"]

\* faulty variant: no test for an empty array, np.nanmax raises on it
saturation_percent_unguarded(counts, full_scale) ==
    IF counts = None THEN [ok |-> TRUE, value |-> fdiv(0, 1)]
    ELSE IF Len(counts.data) = 0 THEN RaisedEmpty
    ELSE [ok |-> TRUE, value |-> fdiv(nanmax(counts.data) * 100, full_scale)]

\* saturation_percent: 0.0 for None or an empty array, else
\* nanmax(counts) / full_scale * 100.0
saturation_percent(counts, full_scale) ==
    IF counts = None THEN [ok |-> TRUE, value |-> fdiv(0, 1)]
    ELSE IF Len(counts.data) = 0 THEN [ok |-> TRUE, value |-> fdiv(0, 1)]
    ELSE [ok |-> TRUE, value |-> fdiv(nanmax(counts.data) * 100, full_scale)]

(***************************************************************************)
(* core/models.py                                                          *)
(***************************************************************************)
\* keys of the calibration entries; key "abs" names the field abs_cal
Slots == {"reference", "dark", "abs", "sample"}
Field(key) == IF key = "abs" THEN "abs_cal" ELSE key

\* Spectrum (ts_iso and settings_snapshot are left out); src is history: the
\* repeated run and round that produced the object, NoSrc for any other origin
NoSrc == [run |-> 0, idx |-> 0]
Spectrum(lam, cnt, role, serial, src) ==
    [wavelength_nm |-> lam, counts |-> cnt, role |-> role, serial |-> serial,
     src |-> src]

\* CalibrationSet()
EmptyCalib == [reference |-> None, dark |-> None, abs_cal |-> None, sample |-> None]

\* faulty variant: the abs slot is required as well
is_complete_with_abs(cal) ==
    cal.reference # None /\ cal.dark # None /\ cal.sample # None /\ cal.abs_cal # None

\* CalibrationSet.is_complete_for_reflectance
is_complete_for_reflectance(cal) ==
    cal.reference # None /\ cal.dark # None /\ cal.sample # None

\* a line of SessionState.log
LogLine(lvl, ch, msg) == [lvl |-> lvl, ch |-> ch, msg |-> msg]

(***************************************************************************)
(* core/devices.py                                                         *)
(***************************************************************************)
\* Spectrometer(): handle is "none" (None), "live" (activated in the current
\* driver session) or "stale" (activated in a session that AVS_Done closed;
\* the attribute keeps its truthy value).
\* the serial number the driver reports for the device of a channel
SerialNumber(ch) == [sn |-> ch]

NewDevice == [handle |-> "none", serial |-> None, wavelengths |-> None]

\* wavelength table of each physical device, as AVS_GetLambda reports it
DevGrid(ch) == IF ch = "VIS" THEN <<500000, 600000>> ELSE <<1100000, 1200000>>

\* bound: length of the arrays AVS_GetLambda and AVS_GetScopeData hand back
MaxPixels == 3

\* the array AVS_GetScopeData fills: every pixel reads 50 counts
ScopeData == [i \in 1..MaxPixels |-> 50]

\* faulty variant: the driver's array is not cut to num_pixels
HwCounts_unsliced(ch) == ScopeData

\* counts of a scan: c_spec[: self.num_pixels]
HwCounts(ch) == SubSeq(ScopeData, 1, Len(DevGrid(ch)))

\* single_measurement raises before touching the driver
precheck_fails(d) == d.handle = "none" \/ d.wavelengths = None

\* what AVS_PrepareMeasure / AVS_Measure can answer: an error code or a scan.
\* A stale handle is outside the driver's contract: it may be refused or it
\* may alias a handle of the current session and be served.
DriverOutcomes == {"scan", "error"}

\* "while avaspec.AVS_PollScan(self.handle) == 0: sleep": the first answer
\* that is not 0 ends the wait, whether it is 1 (scan ready) or an error code
RECURSIVE poll_scan(_)
poll_scan(polls) ==
    IF Head(polls) = 0 /\ Len(polls) > 1 THEN poll_scan(Tail(polls)) ELSE Head(polls)

RaisedRuntimeError(msg) == [ok |-> FALSE, err |-> msg, lam |-> <<>>, counts |-> <<>>]

\* Spectrometer.single_measurement for a Spectrometer d (handle: the integer
\* AVS_Activate gave, 0 standing for None) and the answers drv of the
\* driver: the return codes of AVS_PrepareMeasure and AVS_Measure, the
\* successive answers of AVS_PollScan
single_measurement(d, drv) ==
    IF d.handle <= 0 THEN RaisedRuntimeError("invalid handle")
    ELSE IF d.wavelengths = None \/ d.num_pixels <= 0
    THEN RaisedRuntimeError("call get_device_info first")
    ELSE IF drv.prepare < 0 THEN RaisedRuntimeError("AVS_PrepareMeasure failed")
    ELSE IF drv.measure < 0 THEN RaisedRuntimeError("AVS_Measure error")
    ELSE LET polled == poll_scan(drv.polls)
         IN  [ok |-> TRUE, err |-> "", lam |-> d.wavelengths,
              counts |-> SubSeq(ScopeData, 1, d.num_pixels)]

(***************************************************************************)
(* State                                                                   *)
(***************************************************************************)
VARIABLES
    rf_pc,      \* "ready" before compute_reflectance is applied, "done" after
    rf_in,      \* its arguments [sample, reference, dark]
    rf_out,     \* what it returned or raised
    chan,       \* ChannelState: connected, serial, num_pixels, wavelength_nm_full
    dev,        \* Controller.devices: the two Spectrometer objects
    calib,      \* ChannelState.calib, the CalibrationSet of each channel
    latest_sample,   \* ChannelState.latest_sample
    repeats_buffer,  \* ChannelState.repeats_buffer
    log,        \* SessionState.log: the lines the handler that ran last appended
    refl_plot,  \* arguments of the last reflect_widget.plot_two call
    ui,         \* position of the command (GUI) thread
    worker,     \* the do_vis / do_nir threads of measure_single
    op,         \* history: what the handler that ran last did
    assigned,   \* history: calibration slots assigned so far, per channel
    cmds,       \* number of user commands issued
    queue,      \* signals posted to the command thread, not yet delivered
    cont,       \* the ContinuousAcquisitionThread
    rep,        \* the RepeatedAcquisitionThread objects started so far
    saves,      \* history: the save_repeats_csv calls made so far
    budget,     \* number of user commands this exploration allows
    avaspec     \* environment: "installed" if import avaspec succeeds, else "missing"

reflVars == <<rf_pc, rf_in, rf_out>>
sessVars == <<chan, dev, calib, latest_sample, repeats_buffer, log, refl_plot,
              ui, worker, op, assigned, cmds>>
acqVars  == <<queue, cont, rep, saves, budget, avaspec>>
vars == <<reflVars, sessVars, acqVars>>

Pending == [ok |-> FALSE, err |-> "not called"]

(***************************************************************************)
(* compute_reflectance applied to bounded inputs                           *)
(***************************************************************************)
WlValues       == {500000, 500003, 500010}
SampleWlValues == {500000, 500010}
SampleCounts   == {50, 60}
CalCounts      == {0, 100}

StdGrid(n)   == [i \in 1..n |-> 500000 + 100000 * (i - 1)]
StdCounts(n, c) == [i \in 1..n |-> c]

Sp(lam, cnt) == [wavelength_nm |-> lam, counts |-> cnt]

\* grids vary freely (length and values), counts are fixed
GridInputs ==
    {[sample    |-> Sp(gs, StdCounts(Len(gs), 50)),
      reference |-> Sp(gr, StdCounts(Len(gr), 100)),
      dark      |-> Sp(gd, StdCounts(Len(gd), 0))] :
        gs \in SeqsUpTo(SampleWlValues, MaxLen),
        gr \in SeqsUpTo(WlValues, MaxLen),
        gd \in SeqsUpTo(WlValues, MaxLen)}

\* one common grid, counts vary freely
CountInputs ==
    UNION {{[sample    |-> Sp(StdGrid(n), cs),
             reference |-> Sp(StdGrid(n), cr),
             dark      |-> Sp(StdGrid(n), cd)] :
               cs \in [1..n -> SampleCounts],
               cr \in [1..n -> CalCounts],
               cd \in [1..n -> CalCounts]} : n \in 1..MaxLen}

\* state after MainWindow.__init__ built the session and the Controller
NewChannel == [connected |-> FALSE, serial |-> None, num_pixels |-> 0,
               wavelength_nm_full |-> None]
NoPlot  == [ch \in Channels |-> None]
IdleUi  == [pc |-> "idle", key |-> "", ch |-> ""]
NoWorker == [pc |-> "off", result |-> None]
\* stopped, done: the channels whose handle got an AVS_StopMeasure call and
\* whether AVS_Done was called, recorded for a disconnect_spectrometers
\* command
NoOp    == [name |-> "", outcome |-> "", mutated |-> FALSE, stale |-> FALSE,
            recomputes |-> 0, considered |-> {}, saved |-> <<>>, run |-> 0,
            stopped |-> {}, done |-> FALSE]

\* ContinuousAcquisitionThread.__init__: not started, _running False.
\* History of the iteration in progress or just over, cleared at the next
\* loop test: fault, the channel whose single_measurement raised ("" for
\* none); emitted, the channels whose spectrum was emitted
\* settings: vis_settings / nir_settings, None until the first
\* start_acquisition; used is history, the settings handed to the
\* single_measurement call in flight (0: no call in flight); last is
\* history, per channel the Spectrum of the latest new_spectrum emission
NewContinuous ==
    [pc |-> "not_running", running |-> FALSE, ch |-> "", fault |-> "", emitted |-> {},
     settings |-> None, used |-> 0, last |-> [ch \in Channels |-> None]]

InitSession ==
    /\ chan = [ch \in Channels |-> NewChannel]
    /\ dev = [ch \in Channels |-> NewDevice]
    /\ calib = [ch \in Channels |-> EmptyCalib]
    /\ latest_sample = [ch \in Channels |-> None]
    /\ repeats_buffer = [ch \in Channels |-> <<>>]
    /\ log = <<>>
    /\ refl_plot = NoPlot
    /\ ui = IdleUi
    /\ worker = [ch \in Channels |-> NoWorker]
    /\ op = NoOp
    /\ assigned = [ch \in Channels |-> {}]
    /\ cmds = 0
    /\ queue = <<>>
    /\ cont = NewContinuous
    /\ rep = <<>>
    /\ saves = <<>>

InitRefl ==
    /\ rf_pc = "ready"
    /\ rf_in \in GridInputs \cup CountInputs
    /\ rf_out = Pending
    /\ InitSession
    /\ budget = MaxCmds
    /\ avaspec = "installed"

ApplyReflectance ==
    /\ rf_pc = "ready"
    /\ rf_out' = compute_reflectance(rf_in.sample, rf_in.reference, rf_in.dark)
    /\ rf_pc' = "done"
    /\ UNCHANGED <<rf_in, sessVars, acqVars>>

NextRefl == ApplyReflectance

SpecRefl == InitRefl /\ [][NextRefl]_vars

(***************************************************************************)
(* saturation_percent applied to bounded inputs                            *)
(***************************************************************************)
\* bound: longest count vector handed to saturation_percent
MaxSatLen == 3

SatCounts == {0, 8100, 16200}
SatFullScales == {FULL_SCALE_COUNTS, 8100, 1}

\* None, the empty array and every count vector up to MaxSatLen
SatInputs ==
    {[counts |-> c, full_scale |-> f] :
        c \in {None, ndarray(<<>>)} \cup {ndarray(q) : q \in SeqsUpTo(SatCounts, MaxSatLen)},
        f \in SatFullScales}

InitSat ==
    /\ rf_pc = "ready"
    /\ rf_in \in SatInputs
    /\ rf_out = Pending
    /\ InitSession
    /\ budget = MaxCmds
    /\ avaspec = "installed"

ApplySaturation ==
    /\ rf_pc = "ready"
    /\ rf_out' = saturation_percent(rf_in.counts, rf_in.full_scale)
    /\ rf_pc' = "done"
    /\ UNCHANGED <<rf_in, sessVars, acqVars>>

NextSat == ApplySaturation

SpecSat == InitSat /\ [][NextSat]_vars

(***************************************************************************)
(* single_measurement applied to bounded inputs                            *)
(***************************************************************************)
\* bound: number of AVS_PollScan answers until the wait ends
MaxPolls == 2

\* a Spectrometer with the handle h assigned (0: none, -1: invalid), before
\* or after get_device_info
MeasDevice(h, fetched) ==
    [handle |-> h,
     wavelengths |-> IF fetched THEN DevGrid("VIS") ELSE None,
     num_pixels |-> IF fetched THEN Len(DevGrid("VIS")) ELSE 0]

\* AVS_PollScan answers 0 while the scan is not ready, then 1, or an error code
PollAnswers ==
    {p \in SeqsUpTo({0, 1, -1}, MaxPolls) :
        /\ p[Len(p)] # 0
        /\ \A i \in 1..(Len(p) - 1) : p[i] = 0}

DriverAnswers ==
    {[prepare |-> a, measure |-> b, polls |-> p] :
        a \in {0, -1}, b \in {0, -1}, p \in PollAnswers}

InitMeas ==
    /\ rf_pc = "ready"
    /\ \E h \in {-1, 0, 1}, fetched \in BOOLEAN, drv \in DriverAnswers :
          rf_in = [d |-> MeasDevice(h, fetched), drv |-> drv]
    /\ rf_out = Pending
    /\ InitSession
    /\ budget = MaxCmds
    /\ avaspec = "installed"

ApplyMeasurement ==
    /\ rf_pc = "ready"
    /\ rf_out' = single_measurement(rf_in.d, rf_in.drv)
    /\ rf_pc' = "done"
    /\ UNCHANGED <<rf_in, sessVars, acqVars>>

NextMeas == ApplyMeasurement

SpecMeas == InitMeas /\ [][NextMeas]_vars

(***************************************************************************)
(* core/repository.py                                                      *)
(*                                                                         *)
(* Strings are sequences of one-character strings.  A data cell of a CSV   *)
(* file is the text "%.18e" prints: its significant digits and its decimal *)
(* exponent.  Values are non-negative.                                     *)
(***************************************************************************)
VIS_NIR_SPLIT_NM == 1050000

SeqMax(q) == CHOOSE m \in {q[i] : i \in 1..Len(q)} : \A i \in 1..Len(q) : q[i] <= m

\* Optional[str]: None or a string
text(chars) == [chars |-> chars]

\* str.upper on the letters the recognised prefixes are made of
upper_char(c) ==
    CASE c = "v" -> "V" [] c = "i" -> "I" [] c = "s" -> "S" [] c = "n" -> "N"
      [] c = "r" -> "R" [] c = "e" -> "E" [] c = "p" -> "P" [] OTHER -> c

upper(str) == [i \in 1..Len(str) |-> upper_char(str[i])]

startswith(str, prefix) ==
    Len(str) >= Len(prefix) /\ SubSeq(str, 1, Len(prefix)) = prefix

RECURSIVE lstrip(_)
lstrip(str) == IF str # <<>> /\ Head(str) = " " THEN lstrip(Tail(str)) ELSE str

RECURSIVE rstrip(_)
rstrip(str) ==
    IF str # <<>> /\ str[Len(str)] = " "
    THEN rstrip(SubSeq(str, 1, Len(str) - 1)) ELSE str

\* str.strip
strip(str) == rstrip(lstrip(str))

\* Path.name: what follows the last separator
RECURSIVE path_name(_)
path_name(path) ==
    IF \E i \in 1..Len(path) : path[i] = "/" THEN path_name(Tail(path)) ELSE path

\* the directory part of a path relative to the target folder, <<>> when the
\* file lies in the folder itself
RECURSIVE path_parent(_)
path_parent(path) ==
    IF path = <<>> THEN <<>>
    ELSE IF path[Len(path)] = "/" THEN SubSeq(path, 1, Len(path) - 1)
    ELSE path_parent(SubSeq(path, 1, Len(path) - 1))

ChannelValue(ch) == IF ch = "VIS" THEN <<"V", "I", "S">> ELSE <<"N", "I", "R">>

\* spectrum.role.upper()
role_token(role) ==
    CASE role = "sample" -> <<"S", "A", "M", "P", "L", "E">>
      [] role = "reference" -> <<"R", "E", "F", "E", "R", "E", "N", "C", "E">>
      [] role = "dark" -> <<"D", "A", "R", "K">>
      [] role = "abs" -> <<"A", "B", "S">>
      [] OTHER -> <<"R", "E", "P", "E", "A", "T">>

\* time.strftime(TIME_FORMAT_FILE), one stand-in token
Timestamp == <<"0">>

DotCsv == <<".", "c", "s", "v">>

RECURSIVE Pow10(_)
Pow10(n) == IF n = 0 THEN 1 ELSE 10 * Pow10(n - 1)

RECURSIVE NumDigits(_)
NumDigits(x) == IF x < 10 THEN 1 ELSE 1 + NumDigits(x \div 10)

RECURSIVE StripZeros(_)
StripZeros(x) == IF x # 0 /\ x % 10 = 0 THEN StripZeros(x \div 10) ELSE x

\* "%.<prec>e" % x: x rounded to prec + 1 significant digits
fmt_e(x, prec) ==
    LET nd == NumDigits(x)
        r  == IF nd <= prec + 1 THEN x
              ELSE LET p == Pow10(nd - prec - 1) IN ((x + p \div 2) \div p) * p
    IN  [digits |-> StripZeros(r), exp |-> NumDigits(r) - 1]

\* digits after the decimal point in np.savetxt's default fmt "%.18e"
SAVETXT_PRECISION == 18

\* one cell as np.savetxt writes it
format_cell(x) == fmt_e(x, SAVETXT_PRECISION)

\* float(cell) as np.loadtxt converts it
parse_cell(c) == c.digits * Pow10(c.exp - (NumDigits(c.digits) - 1))

\* a CSV file: its path below the folder, whether every token of its
\* non-comment lines is numeric, and the cells of those lines
CsvFile(path, numeric, rows) == [path |-> path, numeric |-> numeric, rows |-> rows]

\* np.column_stack((wavelength_nm, counts))
column_stack(lam, cnt) == [i \in 1..Len(lam) |-> <<lam[i], cnt[i]>>]

\* np.savetxt: one line per row, cells in "%.18e"
savetxt(arr) == [i \in 1..Len(arr) |-> [j \in 1..Len(arr[i]) |-> format_cell(arr[i][j])]]

\* save_spectrum_csv; dirs are the directories that exist below the folder
save_spectrum_csv(channel, spectrum, dirs, name_hint) ==
    LET base_name == IF name_hint # None /\ name_hint.chars # <<>>
                     THEN strip(name_hint.chars) ELSE role_token(spectrum.role)
        fname == ChannelValue(channel) \o <<"_">> \o base_name \o <<"_">>
                     \o Timestamp \o DotCsv
    IN  IF Len(spectrum.wavelength_nm) # Len(spectrum.counts)
        THEN [ok |-> FALSE, err |-> "ValueError", file |-> None]
        ELSE IF path_parent(fname) # <<>> /\ path_parent(fname) \notin dirs
        THEN [ok |-> FALSE, err |-> "FileNotFoundError", file |-> None]
        ELSE [ok |-> TRUE, err |-> "",
              file |-> CsvFile(fname, TRUE,
                               savetxt(column_stack(spectrum.wavelength_nm,
                                                    spectrum.counts)))]

\* faulty variant: a grid that ends exactly at the split counts as VIS
infer_channel_inclusive(path, lam) ==
    LET name == upper(path_name(path))
    IN  IF startswith(name, <<"V", "I", "S", "_">>)
           \/ startswith(name, <<"R", "E", "P", "_", "V", "I", "S", "_">>)
        THEN "VIS"
        ELSE IF startswith(name, <<"N", "I", "R", "_">>)
                \/ startswith(name, <<"R", "E", "P", "_", "N", "I", "R", "_">>)
        THEN "NIR"
        ELSE IF SeqMax(lam) <= VIS_NIR_SPLIT_NM THEN "VIS" ELSE "NIR"

\* _infer_channel_from_file_and_data
infer_channel(path, lam) ==
    LET name == upper(path_name(path))
    IN  IF startswith(name, <<"V", "I", "S", "_">>)
           \/ startswith(name, <<"R", "E", "P", "_", "V", "I", "S", "_">>)
        THEN "VIS"
        ELSE IF startswith(name, <<"N", "I", "R", "_">>)
                \/ startswith(name, <<"R", "E", "P", "_", "N", "I", "R", "_">>)
        THEN "NIR"
        ELSE IF SeqMax(lam) < VIS_NIR_SPLIT_NM THEN "VIS" ELSE "NIR"

NoArray == [ok |-> FALSE, ndim |-> 0, flat |-> <<>>, data |-> <<>>]

\* np.loadtxt(path, delimiter=",", comments="#"): raises on a non-numeric
\* token and on rows of different widths; the result is squeezed, so one row
\* or one column comes back one-dimensional and one value zero-dimensional
loadtxt(f) ==
    LET n == Len(f.rows)
        val == [i \in 1..n |-> [j \in 1..Len(f.rows[i]) |-> parse_cell(f.rows[i][j])]]
    IN  IF ~ f.numeric THEN NoArray
        ELSE IF n = 0 THEN [ok |-> TRUE, ndim |-> 1, flat |-> <<>>, data |-> <<>>]
        ELSE IF \E i \in 1..n : Len(f.rows[i]) # Len(f.rows[1]) THEN NoArray
        ELSE IF n = 1 /\ Len(val[1]) = 1
        THEN [ok |-> TRUE, ndim |-> 0, flat |-> val[1], data |-> <<>>]
        ELSE IF n = 1
        THEN [ok |-> TRUE, ndim |-> 1, flat |-> val[1], data |-> <<>>]
        ELSE IF Len(val[1]) = 1
        THEN [ok |-> TRUE, ndim |-> 1, flat |-> [i \in 1..n |-> val[i][1]],
              data |-> <<>>]
        ELSE [ok |-> TRUE, ndim |-> 2, flat |-> <<>>, data |-> val]

Raised(err) == [ok |-> FALSE, err |-> err, chan |-> "", sp |-> None]

\* load_spectrum_csv: raises, or returns (channel, Spectrum) with role "sample"
load_spectrum_csv(f) ==
    LET a == loadtxt(f)
        \* data.reshape(1, -1) when data.ndim == 1
        data == IF a.ndim = 1 THEN <<a.flat>> ELSE a.data
    IN  IF ~ a.ok THEN Raised("ValueError")
        ELSE IF a.ndim = 0 THEN Raised("IndexError")
        ELSE IF Len(data[1]) < 2 THEN Raised("IndexError")
        ELSE LET wavelength == [i \in 1..Len(data) |-> data[i][1]]
                 counts == [i \in 1..Len(data) |-> data[i][2]]
             IN  [ok |-> TRUE, err |-> "",
                  chan |-> infer_channel(f.path, wavelength),
                  sp |-> Spectrum(wavelength, counts, "sample", None, NoSrc)]

(***************************************************************************)
(* save_spectrum_csv, load_spectrum_csv and the channel inference applied  *)
(* to bounded inputs                                                       *)
(***************************************************************************)
\* bounds: data lines of a file, and cells of one line
MaxRows == 2
MaxCols == 3

CsvLam == {600010, 1049999, 1050000}
CsvCounts == {0, 16200}

\* no hint, an empty and a blank one, one that looks like the other
\* channel's prefix, and one that names a subdirectory
NameHints ==
    {None, text(<<>>), text(<<" ">>), text(<<"N", "I", "R", "_">>),
     text(<<"a", "/", "b">>)}

\* what exists below the target folder: nothing, or directories VIS_a, NIR_a
FolderContents == {{}, {<<"V", "I", "S", "_", "a">>, <<"N", "I", "R", "_", "a">>}}

RoundTripInputs ==
    UNION {{[fn |-> "roundtrip", channel |-> c,
             spectrum |-> Spectrum(lam, cnt, role, None, NoSrc),
             dirs |-> d, name_hint |-> h] :
               c \in Channels, lam \in [1..k -> CsvLam], cnt \in [1..k -> CsvCounts],
               role \in {"sample", "dark"}, d \in FolderContents, h \in NameHints} :
           k \in 1..MaxLen}

Cells == {format_cell(800000), format_cell(1200000)}
Lines == UNION {[1..k -> Cells] : k \in 1..MaxCols}

LoadNames == {<<"V", "I", "S", "_">>, <<"x">>}

LoadInputs ==
    {[fn |-> "load", file |-> CsvFile(n, num, rows)] :
        n \in LoadNames, num \in BOOLEAN, rows \in {<<>>} \cup SeqsUpTo(Lines, MaxRows)}

InferNames ==
    {<<"V", "I", "S", "_">>, <<"R", "E", "P", "_", "V", "I", "S", "_">>,
     <<"N", "I", "R", "_">>, <<"R", "E", "P", "_", "N", "I", "R", "_">>,
     <<"v", "i", "s", "_">>, <<"r", "e", "p", "_", "n", "i", "r", "_">>,
     <<"V", "I", "S">>, <<"R", "E", "P", "_">>, <<"x", "N", "I", "R", "_">>,
     <<"x">>}

InferLam == {800000, 1049999, 1050000, 1200000}

InferInputs ==
    {[fn |-> "infer", path |-> n, lam |-> lam] :
        n \in InferNames, lam \in SeqsUpTo(InferLam, MaxLen)}

InitCsv ==
    /\ rf_pc = "ready"
    /\ rf_in \in RoundTripInputs \cup LoadInputs \cup InferInputs
    /\ rf_out = Pending
    /\ InitSession
    /\ budget = MaxCmds
    /\ avaspec = "installed"

\* load_spectrum_csv(save_spectrum_csv(channel, spectrum, folder, name_hint))
RoundTrip ==
    /\ rf_pc = "ready"
    /\ rf_in.fn = "roundtrip"
    /\ LET saved == save_spectrum_csv(rf_in.channel, rf_in.spectrum, rf_in.dirs,
                                      rf_in.name_hint)
       IN  rf_out' = [saved |-> saved,
                      loaded |-> IF saved.ok THEN load_spectrum_csv(saved.file)
                                 ELSE Raised("not called")]
    /\ rf_pc' = "done"
    /\ UNCHANGED <<rf_in, sessVars, acqVars>>

ApplyLoad ==
    /\ rf_pc = "ready"
    /\ rf_in.fn = "load"
    /\ rf_out' = load_spectrum_csv(rf_in.file)
    /\ rf_pc' = "done"
    /\ UNCHANGED <<rf_in, sessVars, acqVars>>

ApplyInfer ==
    /\ rf_pc = "ready"
    /\ rf_in.fn = "infer"
    /\ rf_out' = [chan |-> infer_channel(rf_in.path, rf_in.lam)]
    /\ rf_pc' = "done"
    /\ UNCHANGED <<rf_in, sessVars, acqVars>>

NextCsv == RoundTrip \/ ApplyLoad \/ ApplyInfer

SpecCsv == InitCsv /\ [][NextCsv]_vars

(***************************************************************************)
(* ui/controllers.py                                                       *)
(***************************************************************************)
CanCommand == ui.pc = "idle" /\ cmds < budget

Begin(name) == [NoOp EXCEPT !.name = name]
Mutated(o) == [o EXCEPT !.mutated = TRUE, !.stale = TRUE]
Recomputed(o, r) ==
    [o EXCEPT !.recomputes = @ + 1, !.stale = FALSE, !.considered = r.considered]

put(c, ch, key, sp) == [c EXCEPT ![ch][Field(key)] = sp]
mark(a, ch, key) == [a EXCEPT ![ch] = @ \cup {key}]

\* one "# VIS" / "# NIR" block of update_reflectance_plot
reflect_block(cal, ch) ==
    IF is_complete_for_reflectance(cal)
    THEN LET r == compute_reflectance(cal.sample, cal.reference, cal.dark)
         IN  IF r.ok
             THEN [plot |-> [lam |-> r.lam, refl |-> r.refl], log |-> <<>>,
                   raised |-> FALSE]
             ELSE [plot |-> None,
                   log |-> <<LogLine("WARNING", ch, "reflectance not computed")>>,
                   raised |-> TRUE]
    ELSE [plot |-> None, log |-> <<>>, raised |-> FALSE]

\* faulty variant: the ValueError of the VIS block is not caught, so the NIR
\* block and the plot_two call are skipped
update_reflectance_plot_uncaught(c) ==
    LET vis == reflect_block(c["VIS"], "VIS")
        nir == reflect_block(c["NIR"], "NIR")
    IN  IF vis.raised
        THEN [plot |-> NoPlot, log |-> <<>>, considered |-> {"VIS"}]
        ELSE [plot |-> [ch \in Channels |-> IF ch = "VIS" THEN vis.plot ELSE nir.plot],
              log |-> vis.log \o nir.log,
              considered |-> {"VIS", "NIR"}]

\* Controller.update_reflectance_plot: both blocks run, each catches its own
\* exception, then reflect_widget.plot_two gets whatever was computed
update_reflectance_plot(c) ==
    LET vis == reflect_block(c["VIS"], "VIS")
        nir == reflect_block(c["NIR"], "NIR")
    IN  [plot |-> [ch \in Channels |-> IF ch = "VIS" THEN vis.plot ELSE nir.plot],
         log |-> vis.log \o nir.log,
         considered |-> {"VIS", "NIR"}]

\* disconnect_spectrometers: AVS_StopMeasure / AVS_Done close the driver
\* session; the Spectrometer objects keep their handle attribute
closed(d) == [d EXCEPT !.handle = IF @ = "none" THEN "none" ELSE "stale"]
\* faulty variant: the pixel count is reset with the connection
disconnected_reset_pixels(c) ==
    [c EXCEPT !.connected = FALSE, !.serial = None, !.num_pixels = 0]
\* faulty variant: the serial of the channel is kept
disconnected_keep_serial(c) == [c EXCEPT !.connected = FALSE]
disconnected(c) == [c EXCEPT !.connected = FALSE, !.serial = None]

\* "if getattr(d, 'handle', None)": the devices AVS_StopMeasure is called on
with_handle(d) == {ch \in Channels : d[ch].handle # "none"}

\* the lines disconnect_spectrometers logs: AVS_StopMeasure raises for the
\* channels in raising, AVS_Done raises if done_raises; both are swallowed
\* together with the log call that follows them in the try block
disconnect_log(d, silent, raising, done_raises) ==
    LET one(ch) == IF ch \in with_handle(d) /\ ch \notin raising /\ ~ silent
                   THEN <<LogLine("INFO", ch, "Stopped measure")>>
                   ELSE <<>>
    IN  one("VIS") \o one("NIR")
        \o (IF silent \/ done_raises THEN <<>>
            ELSE <<LogLine("INFO", "", "Closed Avantes interface")>>)

\* faulty variant: the sample spectra are dropped with the connection
disconnect_spectrometers_drops_sample(silent, raising, done_raises) ==
    /\ CanCommand
    /\ cmds' = cmds + 1
    /\ IF avaspec = "missing"
       THEN /\ op' = [Begin("disconnect_spectrometers") EXCEPT !.outcome = "returned"]
            /\ log' = <<>>
            /\ UNCHANGED <<dev, chan, calib>>
       ELSE /\ op' = [Begin("disconnect_spectrometers") EXCEPT
                        !.outcome = "returned",
                        !.stopped = with_handle(dev),
                        !.done = TRUE]
            /\ log' = disconnect_log(dev, silent, raising, done_raises)
            /\ dev' = [ch \in Channels |-> closed(dev[ch])]
            /\ chan' = [ch \in Channels |-> disconnected(chan[ch])]
            /\ calib' = [ch \in Channels |-> [calib[ch] EXCEPT !.sample = None]]
    /\ UNCHANGED <<latest_sample, repeats_buffer, refl_plot, ui, worker, assigned,
                   reflVars, acqVars>>

\* Controller.disconnect_spectrometers(silent)
disconnect_spectrometers(silent, raising, done_raises) ==
    /\ CanCommand
    /\ cmds' = cmds + 1
    /\ IF avaspec = "missing"
       THEN /\ op' = [Begin("disconnect_spectrometers") EXCEPT !.outcome = "returned"]
            /\ log' = <<>>
            /\ UNCHANGED <<dev, chan>>
       ELSE /\ op' = [Begin("disconnect_spectrometers") EXCEPT
                        !.outcome = "returned",
                        !.stopped = with_handle(dev),
                        !.done = TRUE]
            /\ log' = disconnect_log(dev, silent, raising, done_raises)
            /\ dev' = [ch \in Channels |-> closed(dev[ch])]
            /\ chan' = [ch \in Channels |-> disconnected(chan[ch])]
    /\ UNCHANGED <<calib, latest_sample, repeats_buffer, refl_plot, ui, worker, assigned,
                   reflVars, acqVars>>

\* what the driver answers for the device of channel ch: AVS_GetNumPixels,
\* and AVS_GetLambda, which fills an array of fixed size whose entries past
\* the last pixel are 0
NumPixels(ch) == Len(DevGrid(ch))
LambdaTable(ch) ==
    [i \in 1..MaxPixels |-> IF i <= Len(DevGrid(ch)) THEN DevGrid(ch)[i] ELSE 0]

\* faulty variant: the driver's array is stored without the cut
get_device_info_unsliced(num_pix, raw) ==
    [num_pixels |-> num_pix, wavelengths |-> raw]

\* Spectrometer.get_device_info once the handle and AVS_GetNumPixels passed
\* their tests: num_pixels, and wavelengths = raw[: self.num_pixels]
get_device_info(num_pix, raw) ==
    [num_pixels |-> num_pix,
     wavelengths |-> SubSeq(raw, 1, IF num_pix < Len(raw) THEN num_pix ELSE Len(raw))]

\* one pass of the "for dev in devices" loop of setup_connections; a raised
\* accumulator means get_device_info raised out of the handler
connect_one(acc, d) ==
    IF acc.raised THEN acc
    ELSE IF d.result = "activate_fail"
    THEN [acc EXCEPT !.log = Append(@, LogLine("ERROR", d.ch, "Could not activate"))]
    ELSE IF d.result = "info_fail"
    THEN [acc EXCEPT !.dev[d.ch].handle = "live", !.dev[d.ch].serial = SerialNumber(d.ch),
                     !.raised = TRUE]
    ELSE LET info == get_device_info(NumPixels(d.ch), LambdaTable(d.ch))
         IN [acc EXCEPT
            !.dev[d.ch] = [handle |-> "live", serial |-> SerialNumber(d.ch),
                           wavelengths |-> info.wavelengths],
            !.chan[d.ch] = [connected |-> TRUE, serial |-> SerialNumber(d.ch),
                            num_pixels |-> info.num_pixels,
                            wavelength_nm_full |-> info.wavelengths],
            !.found = @ \cup {d.ch},
            !.log = Append(@, LogLine("INFO", d.ch, "Connected"))]

RECURSIVE connect_all(_, _)
connect_all(acc, devices) ==
    IF devices = <<>> THEN acc
    ELSE connect_all(connect_one(acc, Head(devices)), Tail(devices))

not_found(found) ==
    (IF "VIS" \in found THEN <<>>
     ELSE <<LogLine("WARNING", "VIS", "spectrometer not found")>>)
    \o (IF "NIR" \in found THEN <<>>
        ELSE <<LogLine("WARNING", "NIR", "spectrometer not found")>>)

\* what AVS_GetList / AVS_Activate / get_device_info can answer
DeviceResults == {"ok", "activate_fail", "info_fail"}
DeviceLists ==
    {<<>>}
    \cup {<<[ch |-> c, result |-> r]>> : c \in Channels, r \in DeviceResults}
    \cup {<<[ch |-> "VIS", result |-> r1], [ch |-> "NIR", result |-> r2]>> :
            r1 \in DeviceResults, r2 \in DeviceResults}

\* Controller.setup_connections
setup_connections(devices) ==
    LET start == [dev |-> [ch \in Channels |-> closed(dev[ch])],
                  chan |-> [ch \in Channels |-> disconnected(chan[ch])],
                  log |-> <<LogLine("INFO", "", "Searching")>>,
                  found |-> {}, raised |-> FALSE]
        acc == connect_all(start, devices)
        o == Begin("setup_connections")
    IN  /\ CanCommand
        /\ cmds' = cmds + 1
        /\ IF avaspec = "missing"
           THEN /\ log' = Append(start.log, LogLine("ERROR", "", "avaspec library not found"))
                /\ op' = [Begin("setup_connections") EXCEPT !.outcome = "none"]
                /\ ui' = IdleUi
                /\ UNCHANGED <<dev, chan>>
           ELSE IF devices = <<>>
           THEN /\ log' = Append(start.log, LogLine("ERROR", "", "No spectrometers detected"))
                /\ op' = [o EXCEPT !.outcome = "none"]
                /\ ui' = IdleUi
                /\ dev' = acc.dev
                /\ chan' = acc.chan
           ELSE IF acc.raised
           THEN /\ log' = acc.log
                /\ op' = [o EXCEPT !.outcome = "raised"]
                /\ ui' = [IdleUi EXCEPT !.pc = "aborted"]
                /\ dev' = acc.dev
                /\ chan' = acc.chan
           ELSE /\ log' = acc.log \o not_found(acc.found)
                /\ op' = [o EXCEPT !.outcome = "returned"]
                /\ ui' = IdleUi
                /\ dev' = acc.dev
                /\ chan' = acc.chan
        /\ UNCHANGED <<calib, latest_sample, repeats_buffer, refl_plot, worker, assigned,
                       reflVars, acqVars>>

\* files the dialogs can hand back: a VIS spectrum on a grid shifted against
\* the device's, and a file that does not parse
Files ==
    {save_spectrum_csv("VIS", Spectrum(<<500000, 600010>>, <<0, 0>>, "sample",
                                       None, NoSrc), {}, None).file,
     CsvFile(<<"x">>, FALSE, <<>>)}

\* getOpenFileName: a chosen path or "" (dialog cancelled)
Cancelled == [picked |-> FALSE, file |-> CsvFile(<<>>, FALSE, <<>>)]
DialogResults == {Cancelled} \cup {[picked |-> TRUE, file |-> f] : f \in Files}

\* a NIR calibration file, and the dialogs that can also hand it back
NirFile ==
    save_spectrum_csv("NIR", Spectrum(<<1100000, 1200000>>, <<7, 7>>, "reference",
                                      None, NoSrc), {}, None).file
LoadDialogResults == DialogResults \cup {[picked |-> TRUE, file |-> NirFile]}

\* load_spectrum_csv on the files a dialog can hand back
load_picked == [f \in Files \cup {Cancelled.file, NirFile} |-> load_spectrum_csv(f)]

\* faulty variant: a loaded sample is taken for the latest sample as well
load_calibration_sets_latest(key, dlg) ==
    LET r == load_picked[dlg.file]
    IN  /\ CanCommand
        /\ cmds' = cmds + 1
        /\ ui' = IdleUi
        /\ IF ~ dlg.picked
           THEN /\ op' = [Begin("load_calibration") EXCEPT !.outcome = "cancelled"]
                /\ log' = <<>>
                /\ UNCHANGED <<calib, assigned, refl_plot, latest_sample>>
           ELSE IF ~ r.ok
           THEN /\ op' = [Begin("load_calibration") EXCEPT !.outcome = "failed"]
                /\ log' = <<LogLine("ERROR", "", "Failed to load calibration")>>
                /\ UNCHANGED <<calib, assigned, refl_plot, latest_sample>>
           ELSE LET u == update_reflectance_plot(put(calib, r.chan, key, r.sp))
                IN  /\ calib' = put(calib, r.chan, key, r.sp)
                    /\ latest_sample' = IF key = "sample"
                                        THEN [latest_sample EXCEPT ![r.chan] = r.sp]
                                        ELSE latest_sample
                    /\ assigned' = mark(assigned, r.chan, key)
                    /\ log' = <<LogLine("INFO", r.chan, "Loaded")>> \o u.log
                    /\ refl_plot' = u.plot
                    /\ op' = [Recomputed(Mutated(Begin("load_calibration")), u)
                                EXCEPT !.outcome = "loaded"]
        /\ UNCHANGED <<chan, dev, repeats_buffer, worker, reflVars, acqVars>>

\* faulty variant: the slot is assigned and the handler returns without
\* update_reflectance_plot
load_calibration_no_recompute(key, dlg) ==
    LET r == load_picked[dlg.file]
    IN  /\ CanCommand
        /\ cmds' = cmds + 1
        /\ ui' = IdleUi
        /\ dlg.picked /\ r.ok
        /\ calib' = put(calib, r.chan, key, r.sp)
        /\ assigned' = mark(assigned, r.chan, key)
        /\ log' = <<LogLine("INFO", r.chan, "Loaded")>>
        /\ op' = [Mutated(Begin("load_calibration")) EXCEPT !.outcome = "loaded"]
        /\ UNCHANGED <<chan, dev, latest_sample, repeats_buffer, worker, refl_plot,
                       reflVars, acqVars>>

\* Controller.load_calibration
load_calibration(key, dlg) ==
    LET r == load_picked[dlg.file]
    IN  /\ CanCommand
        /\ cmds' = cmds + 1
        /\ ui' = IdleUi
        /\ IF ~ dlg.picked
           THEN /\ op' = [Begin("load_calibration") EXCEPT !.outcome = "cancelled"]
                /\ log' = <<>>
                /\ UNCHANGED <<calib, assigned, refl_plot>>
           ELSE IF ~ r.ok
           THEN /\ op' = [Begin("load_calibration") EXCEPT !.outcome = "failed"]
                /\ log' = <<LogLine("ERROR", "", "Failed to load calibration")>>
                /\ UNCHANGED <<calib, assigned, refl_plot>>
           ELSE LET u == update_reflectance_plot(put(calib, r.chan, key, r.sp))
                IN  /\ calib' = put(calib, r.chan, key, r.sp)
                    /\ assigned' = mark(assigned, r.chan, key)
                    /\ log' = <<LogLine("INFO", r.chan, "Loaded")>> \o u.log
                    /\ refl_plot' = u.plot
                    /\ op' = [Recomputed(Mutated(Begin("load_calibration")), u)
                                EXCEPT !.outcome = "loaded"]
        /\ UNCHANGED <<chan, dev, latest_sample, repeats_buffer, worker,
                       reflVars, acqVars>>

\* faulty variant: the sample is dropped before the file is parsed, so a
\* file that does not parse leaves the channels without latest_sample
load_results_eager(dlg) ==
    LET r == load_picked[dlg.file]
    IN  /\ CanCommand
        /\ cmds' = cmds + 1
        /\ ui' = IdleUi
        /\ IF ~ dlg.picked
           THEN /\ op' = [Begin("load_results") EXCEPT !.outcome = "cancelled"]
                /\ log' = <<>>
                /\ UNCHANGED <<calib, assigned, refl_plot, latest_sample>>
           ELSE IF ~ r.ok
           THEN /\ op' = [Begin("load_results") EXCEPT !.outcome = "failed"]
                /\ log' = <<LogLine("ERROR", "", "Could not load CSV")>>
                /\ latest_sample' = [ch \in Channels |-> None]
                /\ UNCHANGED <<calib, assigned, refl_plot>>
           ELSE LET u == update_reflectance_plot(put(calib, r.chan, "sample", r.sp))
                IN  /\ latest_sample' = [latest_sample EXCEPT ![r.chan] = r.sp]
                    /\ calib' = put(calib, r.chan, "sample", r.sp)
                    /\ assigned' = mark(assigned, r.chan, "sample")
                    /\ log' = <<LogLine("INFO", "", "Loaded sample")>> \o u.log
                    /\ refl_plot' = u.plot
                    /\ op' = [Recomputed(Mutated(Begin("load_results")), u)
                                EXCEPT !.outcome = "loaded"]
        /\ UNCHANGED <<chan, dev, repeats_buffer, worker, reflVars, acqVars>>

\* Controller.load_results
load_results(dlg) ==
    LET r == load_picked[dlg.file]
    IN  /\ CanCommand
        /\ cmds' = cmds + 1
        /\ ui' = IdleUi
        /\ IF ~ dlg.picked
           THEN /\ op' = [Begin("load_results") EXCEPT !.outcome = "cancelled"]
                /\ log' = <<>>
                /\ UNCHANGED <<calib, assigned, refl_plot, latest_sample>>
           ELSE IF ~ r.ok
           THEN /\ op' = [Begin("load_results") EXCEPT !.outcome = "failed"]
                /\ log' = <<LogLine("ERROR", "", "Could not load CSV")>>
                /\ UNCHANGED <<calib, assigned, refl_plot, latest_sample>>
           ELSE LET u == update_reflectance_plot(put(calib, r.chan, "sample", r.sp))
                IN  /\ latest_sample' = [latest_sample EXCEPT ![r.chan] = r.sp]
                    /\ calib' = put(calib, r.chan, "sample", r.sp)
                    /\ assigned' = mark(assigned, r.chan, "sample")
                    /\ log' = <<LogLine("INFO", "", "Loaded sample")>> \o u.log
                    /\ refl_plot' = u.plot
                    /\ op' = [Recomputed(Mutated(Begin("load_results")), u)
                                EXCEPT !.outcome = "loaded"]
        /\ UNCHANGED <<chan, dev, repeats_buffer, worker, reflVars, acqVars>>

\* measure_calibration, from the top of the loop body for the first channel
\* of chs up to the next blocking single_measurement call: a channel that is
\* not connected, or whose single_measurement raises at once, is logged and
\* skipped.  The result holds the channels still to do, the first of them
\* being the one whose scan is started, and the lines logged on the way.
RECURSIVE mc_skip(_, _)
mc_skip(chs, lg) ==
    IF chs = <<>> THEN [rest |-> <<>>, log |-> lg]
    ELSE IF ~ chan[Head(chs)].connected
    THEN mc_skip(Tail(chs), Append(lg, LogLine("ERROR", Head(chs), "not connected")))
    ELSE IF precheck_fails(dev[Head(chs)])
    THEN mc_skip(Tail(chs), Append(lg, LogLine("ERROR", Head(chs), "measurement failed")))
    ELSE [rest |-> chs, log |-> lg]

\* the channel loop of measure_calibration: "for kind in (VIS, NIR)"
ChannelOrder == <<"VIS", "NIR">>
after(ch) == IF ch = "VIS" THEN <<"NIR">> ELSE <<>>

\* measure_calibration goes on from the state (c, o) with r == mc_skip(...):
\* either it blocks in the next scan, or the loop is over, the reflectance
\* is recomputed and the handler returns
mc_continue(key, r, c, o) ==
    IF r.rest # <<>>
    THEN /\ ui' = [pc |-> "mc_meas", key |-> key, ch |-> Head(r.rest)]
         /\ log' = r.log
         /\ op' = o
         /\ UNCHANGED refl_plot
    ELSE LET u == update_reflectance_plot(c)
         IN  /\ ui' = IdleUi
             /\ log' = r.log \o u.log
             /\ op' = [Recomputed(o, u) EXCEPT !.outcome = "returned"]
             /\ refl_plot' = u.plot

\* Controller.measure_calibration is called
measure_calibration(key) ==
    /\ CanCommand
    /\ cmds' = cmds + 1
    /\ mc_continue(key, mc_skip(ChannelOrder, <<>>), calib, Begin("measure_calibration"))
    /\ UNCHANGED <<chan, dev, calib, latest_sample, repeats_buffer, worker, assigned,
                   reflVars, acqVars>>

SaveOutcomes == {"written", "oserror"}

\* measure_calibration: single_measurement returns or raises for ui.ch; on a
\* scan the slot is assigned and the spectrum is written with
\* save_spectrum_csv; then the loop goes on
mc_measured(outcome, save) ==
    LET sp == Spectrum(dev[ui.ch].wavelengths, HwCounts(ui.ch), ui.key,
                       dev[ui.ch].serial, NoSrc)
        c  == IF outcome = "error" THEN calib ELSE put(calib, ui.ch, ui.key, sp)
        o  == IF outcome = "error" THEN op
              ELSE IF save = "written"
              THEN [Mutated(op) EXCEPT
                      !.saved = Append(@, [ch |-> ui.ch, role |-> sp.role])]
              ELSE Mutated(op)
        lg == IF outcome = "scan" /\ save = "written"
              THEN Append(log, LogLine("INFO", ui.ch, "Saved"))
              ELSE Append(log, LogLine("ERROR", ui.ch, "measurement failed"))
    IN  /\ ui.pc = "mc_meas"
        /\ calib' = c
        /\ assigned' = IF outcome = "error" THEN assigned
                       ELSE mark(assigned, ui.ch, ui.key)
        /\ mc_continue(ui.key, mc_skip(after(ui.ch), lg), c, o)
        /\ UNCHANGED <<chan, dev, latest_sample, repeats_buffer, worker, cmds,
                       reflVars, acqVars>>

Failed == [error |-> TRUE]

\* do_vis / do_nir up to the blocking driver call: single_measurement raises
\* at once (errors[kind]) or the scan is started
worker_started(ch) ==
    IF precheck_fails(dev[ch]) THEN [pc |-> "done", result |-> Failed]
    ELSE [pc |-> "measuring", result |-> None]

\* Controller.measure_single is called: no channel connected, or one worker
\* thread per connected channel is started and the handler waits in join()
measure_single ==
    /\ CanCommand
    /\ cmds' = cmds + 1
    /\ log' = IF \E ch \in Channels : chan[ch].connected THEN <<>>
              ELSE <<LogLine("ERROR", "", "No spectrometer connected")>>
    /\ IF \E ch \in Channels : chan[ch].connected
       THEN /\ ui' = [IdleUi EXCEPT !.pc = "ms_join"]
            /\ worker' = [ch \in Channels |->
                            IF chan[ch].connected THEN worker_started(ch)
                            ELSE NoWorker]
            /\ op' = Begin("measure_single")
       ELSE /\ ui' = IdleUi
            /\ op' = [Begin("measure_single") EXCEPT !.outcome = "none"]
            /\ UNCHANGED worker
    /\ UNCHANGED <<chan, dev, calib, latest_sample, repeats_buffer, refl_plot, assigned,
                   reflVars, acqVars>>

\* do_vis / do_nir: single_measurement returns (results[kind]) or raises
\* (errors[kind]); the thread ends
worker_measured(ch, outcome) ==
    /\ ui.pc = "ms_join"
    /\ worker[ch].pc = "measuring"
    /\ worker' = [worker EXCEPT ![ch] =
                    [pc |-> "done",
                     result |-> IF outcome = "error" THEN Failed
                                ELSE Spectrum(dev[ch].wavelengths, HwCounts(ch), "sample",
                                              dev[ch].serial, NoSrc)]]
    /\ UNCHANGED <<chan, dev, calib, latest_sample, repeats_buffer, log, refl_plot,
                   ui, op, assigned, cmds, reflVars, acqVars>>

has_result(w) == w.pc = "done" /\ w.result # None /\ w.result # Failed

\* the "Update state & UI" block of measure_single for one channel
single_log(w, ch) ==
    IF has_result(w) THEN <<LogLine("INFO", ch, "sample measured")>>
    ELSE IF w.pc = "done" /\ w.result = Failed
    THEN <<LogLine("ERROR", ch, "sample measurement failed")>>
    ELSE <<>>

\* faulty variant: the handler goes on as soon as one worker has finished
ms_join_first_done ==
    LET got == {ch \in Channels : has_result(worker[ch])}
        c2 == [ch \in Channels |->
                 IF ch \in got THEN [calib[ch] EXCEPT !.sample = worker[ch].result]
                 ELSE calib[ch]]
        u == update_reflectance_plot(c2)
    IN  /\ ui.pc = "ms_join"
        /\ \E ch \in Channels : worker[ch].pc = "done"
        /\ calib' = c2
        /\ latest_sample' = [ch \in Channels |->
                               IF ch \in got THEN worker[ch].result ELSE latest_sample[ch]]
        /\ assigned' = [ch \in Channels |->
                          IF ch \in got THEN assigned[ch] \cup {"sample"} ELSE assigned[ch]]
        /\ log' = single_log(worker["VIS"], "VIS") \o single_log(worker["NIR"], "NIR") \o u.log
        /\ refl_plot' = u.plot
        /\ op' = [Recomputed(IF got = {} THEN op ELSE Mutated(op), u)
                    EXCEPT !.outcome = "returned"]
        /\ worker' = [ch \in Channels |-> NoWorker]
        /\ ui' = IdleUi
        /\ UNCHANGED <<chan, dev, repeats_buffer, cmds, reflVars, acqVars>>

\* faulty variant: one failed worker discards the results of both
ms_join_all_or_nothing ==
    LET got == IF \E c \in Channels : worker[c].result = Failed THEN {}
               ELSE {ch \in Channels : has_result(worker[ch])}
        c2 == [ch \in Channels |->
                 IF ch \in got THEN [calib[ch] EXCEPT !.sample = worker[ch].result]
                 ELSE calib[ch]]
        u == update_reflectance_plot(c2)
    IN  /\ ui.pc = "ms_join"
        /\ \A ch \in Channels : worker[ch].pc \in {"off", "done"}
        /\ calib' = c2
        /\ latest_sample' = [ch \in Channels |->
                               IF ch \in got THEN worker[ch].result ELSE latest_sample[ch]]
        /\ assigned' = [ch \in Channels |->
                          IF ch \in got THEN assigned[ch] \cup {"sample"} ELSE assigned[ch]]
        /\ log' = single_log(worker["VIS"], "VIS") \o single_log(worker["NIR"], "NIR") \o u.log
        /\ refl_plot' = u.plot
        /\ op' = [Recomputed(IF got = {} THEN op ELSE Mutated(op), u)
                    EXCEPT !.outcome = "returned"]
        /\ worker' = [ch \in Channels |-> NoWorker]
        /\ ui' = IdleUi
        /\ UNCHANGED <<chan, dev, repeats_buffer, cmds, reflVars, acqVars>>

\* measure_single after every join() returned: results are applied, the
\* plots are refreshed, the handler returns
ms_join ==
    LET got == {ch \in Channels : has_result(worker[ch])}
        c2 == [ch \in Channels |->
                 IF ch \in got THEN [calib[ch] EXCEPT !.sample = worker[ch].result]
                 ELSE calib[ch]]
        u == update_reflectance_plot(c2)
    IN  /\ ui.pc = "ms_join"
        /\ \A ch \in Channels : worker[ch].pc \in {"off", "done"}
        /\ calib' = c2
        /\ latest_sample' = [ch \in Channels |->
                               IF ch \in got THEN worker[ch].result ELSE latest_sample[ch]]
        /\ assigned' = [ch \in Channels |->
                          IF ch \in got THEN assigned[ch] \cup {"sample"} ELSE assigned[ch]]
        /\ log' = single_log(worker["VIS"], "VIS") \o single_log(worker["NIR"], "NIR") \o u.log
        /\ refl_plot' = u.plot
        /\ op' = [Recomputed(IF got = {} THEN op ELSE Mutated(op), u)
                    EXCEPT !.outcome = "returned"]
        /\ worker' = [ch \in Channels |-> NoWorker]
        /\ ui' = IdleUi
        /\ UNCHANGED <<chan, dev, repeats_buffer, cmds, reflVars, acqVars>>

(***************************************************************************)
(* SpecCal: the command thread alone (connection, calibration, single      *)
(* measurement, reflectance), no acquisition thread running                *)
(***************************************************************************)
InitCal ==
    /\ rf_pc = "idle" /\ rf_in = None /\ rf_out = Pending
    /\ InitSession
    /\ budget = MaxCmds
    /\ avaspec = "installed"

NextCal ==
    \/ \E devices \in DeviceLists : setup_connections(devices)
    \/ \E key \in Slots, dlg \in DialogResults : load_calibration(key, dlg)
    \/ \E dlg \in DialogResults : load_results(dlg)
    \/ \E key \in Slots : measure_calibration(key)
    \/ \E o \in DriverOutcomes : mc_measured(o, "written")
    \/ measure_single
    \/ \E ch \in Channels, o \in DriverOutcomes : worker_measured(ch, o)
    \/ ms_join

SpecCal == InitCal /\ [][NextCal]_vars

(***************************************************************************)
(* app/threads.py                                                          *)
(***************************************************************************)
\* bound: largest repeat_count entered (the spin box allows 1..10000)
MaxCount == 2
\* bound: number of start_repeated commands
MaxRuns == 2
\* bound: signals of the continuous thread waiting in the queue
MaxQueue == 2
\* bound: number of user commands while acquisition threads run
MaxAcqCmds == 3
\* bound: number of user commands while only repeated runs are looked at
MaxRepCmds == 2

\* the process is running (an unhandled exception ends it)
Alive == ui.pc # "aborted"

\* a signal posted to the command thread
Ev(kind, run, ch, sp, idx) ==
    [kind |-> kind, run |-> run, ch |-> ch, sp |-> sp, idx |-> idx]
Finished(run) == Ev("finished", run, "", None, 0)

\* "if getattr(dev, 'handle', None)"
has_handle(d) == d.handle # "none"

\* a run lasts from start_repeated to its completion save
Unsaved(run) == run.pc # "saved"

\* RepeatedAcquisitionThread.__init__.  History: failed, a measurement of the
\* run raised; conn, the channels connected when the run was started; alone,
\* no other run has lasted at the same time; emitted and appended, the
\* results the run has emitted and those the command thread has appended
NewRun(count) ==
    [pc |-> "started", i |-> 0, ch |-> "", count |-> count, running |-> TRUE,
     failed |-> FALSE, conn |-> {ch \in Channels : chan[ch].connected},
     alone |-> \A q \in DOMAIN rep : ~ Unsaved(rep[q]),
     emitted |-> 0, appended |-> 0]

\* RepeatedAcquisitionThread.run from iteration i, the channels chs of that
\* iteration still to do, up to the next blocking driver call: the loop test
\* at the top of an iteration, the handle tests, the check single_measurement
\* makes before it touches the driver
RECURSIVE rep_next(_, _, _)
rep_next(run, i, chs) ==
    IF chs = ChannelOrder /\ (i >= run.count \/ ~ run.running)
    THEN [run EXCEPT !.pc = "finished", !.i = i, !.ch = ""]
    ELSE IF chs = <<>> THEN rep_next(run, i + 1, ChannelOrder)
    ELSE IF ~ has_handle(dev[Head(chs)]) THEN rep_next(run, i, Tail(chs))
    ELSE IF precheck_fails(dev[Head(chs)])
    THEN [run EXCEPT !.pc = "raised", !.i = i, !.ch = Head(chs), !.failed = TRUE]
    ELSE [run EXCEPT !.pc = "measuring", !.i = i, !.ch = Head(chs)]

\* QThread emits finished when run() returns
posted(q, r, run) == IF run.pc = "finished" THEN Append(q, Finished(r)) ELSE q

\* RepeatedAcquisitionThread.run is entered
rep_run(r) ==
    /\ Alive
    /\ r \in DOMAIN rep
    /\ rep[r].pc = "started"
    /\ LET run == rep_next(rep[r], 0, ChannelOrder)
       IN  /\ rep' = [rep EXCEPT ![r] = run]
           /\ queue' = posted(queue, r, run)
    /\ UNCHANGED <<cont, saves, budget, avaspec, reflVars, sessVars>>

\* RepeatedAcquisitionThread.run: single_measurement returns a scan, which is
\* emitted with new_repeat, or raises, which run() does not catch
rep_measured(r, outcome) ==
    /\ Alive
    /\ r \in DOMAIN rep
    /\ rep[r].pc = "measuring"
    /\ LET ch  == rep[r].ch
           sp  == Spectrum(dev[ch].wavelengths, HwCounts(ch), "repeat", dev[ch].serial,
                           [run |-> r, idx |-> rep[r].i])
           run == IF outcome = "error"
                  THEN [rep[r] EXCEPT !.pc = "raised", !.failed = TRUE]
                  ELSE rep_next([rep[r] EXCEPT !.emitted = @ + 1], rep[r].i, after(ch))
       IN  /\ rep' = [rep EXCEPT ![r] = run]
           /\ queue' = IF outcome = "error" THEN queue
                       ELSE posted(Append(queue, Ev("new_repeat", r, ch, sp, rep[r].i)),
                                   r, run)
    /\ UNCHANGED <<cont, saves, budget, avaspec, reflVars, sessVars>>

\* an exception leaves RepeatedAcquisitionThread.run: depending on the PyQt5
\* release the process is aborted, or the traceback is printed and the thread
\* ends as if run() had returned
UnhandledOutcomes == {"abort", "ended"}
rep_unhandled(r, how) ==
    /\ Alive
    /\ r \in DOMAIN rep
    /\ rep[r].pc = "raised"
    /\ IF how = "abort"
       THEN /\ ui' = [ui EXCEPT !.pc = "aborted"]
            /\ UNCHANGED <<rep, queue>>
       ELSE /\ rep' = [rep EXCEPT ![r].pc = "finished"]
            /\ queue' = Append(queue, Finished(r))
            /\ UNCHANGED ui
    /\ UNCHANGED <<cont, saves, budget, avaspec, reflVars, chan, dev, calib, latest_sample,
                   repeats_buffer, log, refl_plot, worker, op, assigned, cmds>>

\* RepeatedAcquisitionThread.stop, called on the command thread for run r:
\* the flag the loop reads at the top of each round is cleared
rep_stop(r) ==
    /\ CanCommand
    /\ r \in DOMAIN rep
    /\ rep[r].running
    /\ cmds' = cmds + 1
    /\ rep' = [rep EXCEPT ![r].running = FALSE]
    /\ UNCHANGED <<queue, cont, saves, budget, avaspec, reflVars, chan, dev, calib,
                   latest_sample, repeats_buffer, log, refl_plot, ui, worker, op,
                   assigned>>

\* SpectrometerSettings as the settings panel hands them out, told apart by
\* exposure_ms; the panel's defaults for both channels
DefaultSettings == [ch \in Channels |-> 1]
\* what the user may have entered when start_continuous is clicked
SettingsChoices == [Channels -> {1, 2}]

\* the Spectrum the continuous loop builds after single_measurement returned:
\* settings_snapshot is self.vis_settings / self.nir_settings read at that
\* moment; measured_with is history, the settings the call was made with
Snapshot(sp, settings, used) ==
    sp @@ [settings_snapshot |-> settings, measured_with |-> used]

\* ContinuousAcquisitionThread.run inside one iteration, the channels chs
\* still to do: the handle tests and the check single_measurement makes
\* before it touches the driver (its exception ends the iteration); after
\* the last channel msleep, then the loop test again
RECURSIVE cont_next(_, _)
cont_next(c, chs) ==
    IF chs = <<>> THEN [c EXCEPT !.pc = "top", !.ch = "", !.used = 0]
    ELSE IF ~ has_handle(dev[Head(chs)]) THEN cont_next(c, Tail(chs))
    ELSE IF precheck_fails(dev[Head(chs)])
    THEN [c EXCEPT !.pc = "top", !.ch = "", !.fault = Head(chs), !.used = 0]
    ELSE [c EXCEPT !.pc = "measuring", !.ch = Head(chs),
                   !.used = c.settings[Head(chs)]]

\* faulty variant: the loop test does not read _running ("while True")
cont_top_deaf ==
    /\ Alive
    /\ cont.pc = "top"
    /\ cont' = cont_next([cont EXCEPT !.fault = "", !.emitted = {}], ChannelOrder)
    /\ UNCHANGED <<queue, rep, saves, budget, avaspec, reflVars, sessVars>>

\* ContinuousAcquisitionThread.run: "while self._running"
cont_top ==
    /\ Alive
    /\ cont.pc = "top"
    /\ cont' = IF cont.running
               THEN cont_next([cont EXCEPT !.fault = "", !.emitted = {}], ChannelOrder)
               ELSE [cont EXCEPT !.pc = "exiting", !.fault = "", !.emitted = {}]
    /\ UNCHANGED <<queue, rep, saves, budget, avaspec, reflVars, sessVars>>

\* faulty variant: no try/except in the loop, an exception ends run()
cont_measured_uncaught(outcome) ==
    /\ Alive
    /\ cont.pc = "measuring"
    /\ LET ch == cont.ch
           sp == Snapshot(Spectrum(dev[ch].wavelengths, HwCounts(ch), "sample",
                                   dev[ch].serial, NoSrc),
                          cont.settings[ch], cont.used)
       IN  IF outcome = "error"
           THEN /\ cont' = [cont EXCEPT !.pc = "exiting", !.ch = "", !.fault = ch,
                                        !.used = 0]
                /\ UNCHANGED queue
           ELSE /\ Len(queue) < MaxQueue
                /\ cont' = cont_next([cont EXCEPT !.emitted = @ \cup {ch},
                                                  !.last[ch] = sp], after(ch))
                /\ queue' = Append(queue, Ev("new_spectrum", 0, ch, sp, 0))
    /\ UNCHANGED <<rep, saves, budget, avaspec, reflVars, sessVars>>

\* ContinuousAcquisitionThread.run: single_measurement returns a scan, which
\* is emitted with new_spectrum, or raises, which ends the iteration
cont_measured(outcome) ==
    /\ Alive
    /\ cont.pc = "measuring"
    /\ LET ch == cont.ch
           sp == Snapshot(Spectrum(dev[ch].wavelengths, HwCounts(ch), "sample",
                                   dev[ch].serial, NoSrc),
                          cont.settings[ch], cont.used)
       IN  IF outcome = "error"
           THEN /\ cont' = [cont EXCEPT !.pc = "top", !.ch = "", !.fault = ch,
                                        !.used = 0]
                /\ UNCHANGED queue
           ELSE /\ Len(queue) < MaxQueue
                /\ cont' = cont_next([cont EXCEPT !.emitted = @ \cup {ch},
                                                  !.last[ch] = sp], after(ch))
                /\ queue' = Append(queue, Ev("new_spectrum", 0, ch, sp, 0))
    /\ UNCHANGED <<rep, saves, budget, avaspec, reflVars, sessVars>>

\* ContinuousAcquisitionThread.run has left its loop and returns
cont_exit ==
    /\ Alive
    /\ cont.pc = "exiting"
    /\ cont' = [cont EXCEPT !.pc = "not_running"]
    /\ UNCHANGED <<queue, rep, saves, budget, avaspec, reflVars, sessVars>>

(***************************************************************************)
(* ui/controllers.py: continuous and repeated acquisition                  *)
(***************************************************************************)
\* Controller.start_continuous -> start_acquisition: the settings of the
\* panel are stored, _running is set and the thread is started unless
\* isRunning() (true also while run() is returning)
start_continuous(settings) ==
    /\ CanCommand
    /\ cmds' = cmds + 1
    /\ cont' = IF cont.pc = "not_running"
               THEN [cont EXCEPT !.settings = settings, !.running = TRUE, !.pc = "top",
                                 !.fault = "", !.emitted = {}]
               ELSE [cont EXCEPT !.settings = settings, !.running = TRUE]
    /\ log' = <<>>
    /\ op' = [Begin("start_continuous") EXCEPT !.outcome = "returned"]
    /\ UNCHANGED <<chan, dev, calib, latest_sample, repeats_buffer, refl_plot, ui, worker,
                   assigned, queue, rep, saves, budget, avaspec, reflVars>>

\* Controller.stop_continuous -> stop_acquisition
stop_continuous ==
    /\ CanCommand
    /\ cmds' = cmds + 1
    /\ cont' = [cont EXCEPT !.running = FALSE]
    /\ log' = <<>>
    /\ op' = [Begin("stop_continuous") EXCEPT !.outcome = "returned"]
    /\ UNCHANGED <<chan, dev, calib, latest_sample, repeats_buffer, refl_plot, ui, worker,
                   assigned, queue, rep, saves, budget, avaspec, reflVars>>

\* Controller.__init__: the minimum intervals of the two gates, in ms
CONT_INTERVAL_MS == 10
REFL_INTERVAL_MS == 50

\* Controller.__init__: _last_cont_plot = 0.0, _last_refl_plot = 0.0
NewGates == [last_cont_plot |-> 0, last_refl_plot |-> 0]

\* faulty variant: the raw-plot gate is tested against _last_refl_plot
throttle_gates_crossed(now, g) ==
    LET plot == now - g.last_refl_plot >= CONT_INTERVAL_MS
        refl == now - g.last_refl_plot >= REFL_INTERVAL_MS
    IN  [plotted |-> plot, recomputed |-> refl,
         last_cont_plot |-> IF plot THEN now ELSE g.last_cont_plot,
         last_refl_plot |-> IF refl THEN now ELSE g.last_refl_plot]

\* the "Raw plot (throttled)" and "Reflectance (throttled)" blocks of
\* _on_continuous_spectrum: now is the reading of time.time() in ms, g the
\* two timestamps; what was refreshed and the timestamps afterwards
throttle_gates(now, g) ==
    LET plot == now - g.last_cont_plot >= CONT_INTERVAL_MS
        refl == now - g.last_refl_plot >= REFL_INTERVAL_MS
    IN  [plotted |-> plot, recomputed |-> refl,
         last_cont_plot |-> IF plot THEN now ELSE g.last_cont_plot,
         last_refl_plot |-> IF refl THEN now ELSE g.last_refl_plot]

\* the command thread is in its event loop and takes the oldest signal
Delivers(kind) == ui.pc = "idle" /\ queue # <<>> /\ Head(queue).kind = kind

\* faulty variant: the spectrum is stored only when the reflectance gate
\* passes
on_continuous_spectrum_when_due(due) ==
    LET e == Head(queue)
        c == put(calib, e.ch, "sample", e.sp)
        u == update_reflectance_plot(c)
        o == Mutated(Begin("_on_continuous_spectrum"))
    IN  /\ Delivers("new_spectrum")
        /\ queue' = Tail(queue)
        /\ IF due
           THEN /\ latest_sample' = [latest_sample EXCEPT ![e.ch] = e.sp]
                /\ calib' = c
                /\ assigned' = mark(assigned, e.ch, "sample")
                /\ refl_plot' = u.plot
                /\ log' = u.log
                /\ op' = [Recomputed(o, u) EXCEPT !.outcome = "returned"]
           ELSE /\ log' = <<>>
                /\ op' = [Begin("_on_continuous_spectrum") EXCEPT !.outcome = "returned"]
                /\ UNCHANGED <<latest_sample, calib, assigned, refl_plot>>
        /\ UNCHANGED <<chan, dev, repeats_buffer, ui, worker, cmds, cont, rep, saves,
                       budget, avaspec, reflVars>>

\* Controller._on_continuous_spectrum; due: the reflectance throttle
\* (0.05 s since the last recompute) has run out
on_continuous_spectrum(due) ==
    LET e == Head(queue)
        c == put(calib, e.ch, "sample", e.sp)
        u == update_reflectance_plot(c)
        o == Mutated(Begin("_on_continuous_spectrum"))
    IN  /\ Delivers("new_spectrum")
        /\ queue' = Tail(queue)
        /\ latest_sample' = [latest_sample EXCEPT ![e.ch] = e.sp]
        /\ calib' = c
        /\ assigned' = mark(assigned, e.ch, "sample")
        /\ IF due
           THEN /\ refl_plot' = u.plot
                /\ log' = u.log
                /\ op' = [Recomputed(o, u) EXCEPT !.outcome = "returned"]
           ELSE /\ log' = <<>>
                /\ op' = [o EXCEPT !.outcome = "returned"]
                /\ UNCHANGED refl_plot
        /\ UNCHANGED <<chan, dev, repeats_buffer, ui, worker, cmds, cont, rep, saves,
                       budget, avaspec, reflVars>>

\* Controller.start_repeated: both buffers are cleared, a new thread object
\* is made, wired and started
start_repeated(count) ==
    /\ CanCommand
    /\ Len(rep) < MaxRuns
    /\ cmds' = cmds + 1
    /\ repeats_buffer' = [ch \in Channels |-> <<>>]
    /\ rep' = Append([q \in DOMAIN rep |->
                         IF Unsaved(rep[q]) THEN [rep[q] EXCEPT !.alone = FALSE]
                         ELSE rep[q]],
                     NewRun(count))
    /\ log' = <<>>
    /\ op' = [Begin("start_repeated") EXCEPT !.outcome = "returned"]
    /\ UNCHANGED <<chan, dev, calib, latest_sample, refl_plot, ui, worker, assigned,
                   queue, cont, saves, budget, avaspec, reflVars>>

\* faulty variant: the newest signal is taken instead of the oldest
on_repeated_spectrum_newest_first ==
    LET e == queue[Len(queue)]
    IN  /\ ui.pc = "idle" /\ queue # <<>> /\ e.kind = "new_repeat"
        /\ queue' = SubSeq(queue, 1, Len(queue) - 1)
        /\ repeats_buffer' = [repeats_buffer EXCEPT ![e.ch] = Append(@, e.sp)]
        /\ rep' = [rep EXCEPT ![e.run].appended = @ + 1]
        /\ log' = <<>>
        /\ op' = [Begin("_on_repeated_spectrum") EXCEPT !.outcome = "returned"]
        /\ UNCHANGED <<chan, dev, calib, latest_sample, refl_plot, ui, worker, assigned,
                       cmds, cont, saves, budget, avaspec, reflVars>>

\* Controller._on_repeated_spectrum
on_repeated_spectrum ==
    LET e == Head(queue)
    IN  /\ Delivers("new_repeat")
        /\ queue' = Tail(queue)
        /\ repeats_buffer' = [repeats_buffer EXCEPT ![e.ch] = Append(@, e.sp)]
        /\ rep' = [rep EXCEPT ![e.run].appended = @ + 1]
        /\ log' = <<>>
        /\ op' = [Begin("_on_repeated_spectrum") EXCEPT !.outcome = "returned"]
        /\ UNCHANGED <<chan, dev, calib, latest_sample, refl_plot, ui, worker, assigned,
                       cmds, cont, saves, budget, avaspec, reflVars>>

\* the save_repeats_csv call _save_repeated_results makes for one channel:
\* the wavelength column of the first entry, one count column per entry;
\* by is history, the run whose finished signal is being handled
SaveCall(by, ch, buf) ==
    [by |-> by, ch |-> ch, lam |-> buf[1].wavelength_nm,
     cols |-> [k \in 1..Len(buf) |-> [src |-> buf[k].src, counts |-> buf[k].counts]]]

\* faulty variant: the buffers are written in the order NIR, VIS and the
\* columns of each from the newest entry to the oldest
save_calls_reversed(by, bufs) ==
    LET one(ch) == IF bufs[ch] # <<>>
                   THEN <<SaveCall(by, ch, [k \in 1..Len(bufs[ch]) |->
                                               bufs[ch][Len(bufs[ch]) + 1 - k]])>>
                   ELSE <<>>
    IN  one("NIR") \o one("VIS")

\* the "# VIS" and "# NIR" blocks of _save_repeated_results
save_calls(by, bufs) ==
    LET one(ch) == IF bufs[ch] # <<>> THEN <<SaveCall(by, ch, bufs[ch])>> ELSE <<>>
    IN  one("VIS") \o one("NIR")

\* Controller._save_repeated_results, the slot of the thread's finished
\* signal
save_repeated_results ==
    LET e == Head(queue)
        calls == save_calls(e.run, repeats_buffer)
    IN  /\ Delivers("finished")
        /\ queue' = Tail(queue)
        /\ saves' = saves \o calls
        /\ rep' = [rep EXCEPT ![e.run].pc = "saved"]
        /\ log' = [k \in 1..Len(calls) |-> LogLine("INFO", calls[k].ch, "Saved repeats")]
        /\ op' = [Begin("_save_repeated_results") EXCEPT
                    !.outcome = "returned",
                    !.run = e.run,
                    !.saved = [k \in 1..Len(calls) |->
                                  [ch |-> calls[k].ch, role |-> "repeat"]]]
        /\ UNCHANGED <<chan, dev, calib, latest_sample, repeats_buffer, refl_plot, ui,
                       worker, assigned, cmds, cont, budget, avaspec, reflVars>>

(***************************************************************************)
(* Spec: the command thread together with the acquisition threads          *)
(***************************************************************************)
\* what the driver finds in Spec: both spectrometers, or the VIS one alone
AcqDeviceLists ==
    {<<[ch |-> "VIS", result |-> "ok"], [ch |-> "NIR", result |-> "ok"]>>,
     <<[ch |-> "VIS", result |-> "ok"]>>}

Init ==
    /\ rf_pc = "idle" /\ rf_in = None /\ rf_out = Pending
    /\ InitSession
    /\ budget = MaxAcqCmds
    /\ avaspec = "installed"

Next ==
    \/ \E devices \in AcqDeviceLists : setup_connections(devices)
    \/ measure_calibration("reference")
    \/ \E o \in DriverOutcomes : mc_measured(o, "written")
    \/ measure_single
    \/ \E ch \in Channels, o \in DriverOutcomes : worker_measured(ch, o)
    \/ ms_join
    \/ start_continuous(DefaultSettings)
    \/ stop_continuous
    \/ \E due \in BOOLEAN : on_continuous_spectrum(due)
    \/ cont_top
    \/ \E o \in DriverOutcomes : cont_measured(o)
    \/ cont_exit
    \/ \E count \in 1..MaxCount : start_repeated(count)
    \/ \E r \in 1..MaxRuns : rep_run(r)
    \/ \E r \in 1..MaxRuns, o \in DriverOutcomes : rep_measured(r, o)
    \/ \E r \in 1..MaxRuns, how \in UnhandledOutcomes : rep_unhandled(r, how)
    \/ on_repeated_spectrum
    \/ save_repeated_results

Spec == Init /\ [][Next]_vars

(***************************************************************************)
(* SpecRep: the command thread connecting and starting repeated runs, the  *)
(* RepeatedAcquisitionThreads and the delivery of their signals            *)
(***************************************************************************)
InitRep ==
    /\ rf_pc = "idle" /\ rf_in = None /\ rf_out = Pending
    /\ InitSession
    /\ budget = MaxRepCmds
    /\ avaspec = "installed"

NextRep ==
    \/ \E devices \in AcqDeviceLists : setup_connections(devices)
    \/ \E count \in 1..MaxCount : start_repeated(count)
    \/ \E r \in 1..MaxRuns : rep_run(r)
    \/ \E r \in 1..MaxRuns, o \in DriverOutcomes : rep_measured(r, o)
    \/ \E r \in 1..MaxRuns, how \in UnhandledOutcomes : rep_unhandled(r, how)
    \/ on_repeated_spectrum
    \/ save_repeated_results

SpecRep == InitRep /\ [][NextRep]_vars

(***************************************************************************)
(* SpecRun: one repeated run at a time that may be stopped.  The thread    *)
(* and the event loop of the command thread are scheduled by the operating *)
(* system and by Qt: a step of either that stays possible is taken         *)
(* eventually; a driver call returns, with a scan or with an error.        *)
(***************************************************************************)
InitRun ==
    /\ rf_pc = "idle" /\ rf_in = None /\ rf_out = Pending
    /\ InitSession
    /\ budget = MaxRepCmds + 1
    /\ avaspec = "installed"

NextRun ==
    \/ \E devices \in AcqDeviceLists : setup_connections(devices)
    \/ \E count \in 1..MaxCount : start_repeated(count)
    \/ \E r \in 1..MaxRuns : rep_stop(r)
    \/ \E r \in 1..MaxRuns : rep_run(r)
    \/ \E r \in 1..MaxRuns, o \in DriverOutcomes : rep_measured(r, o)
    \/ \E r \in 1..MaxRuns, how \in UnhandledOutcomes : rep_unhandled(r, how)
    \/ on_repeated_spectrum
    \/ save_repeated_results

SpecRun ==
    /\ InitRun /\ [][NextRun]_vars
    /\ WF_rep(\E r \in 1..MaxRuns : rep_run(r))
    /\ WF_rep(\E r \in 1..MaxRuns, o \in DriverOutcomes : rep_measured(r, o))
    /\ WF_<<rep, ui>>(\E r \in 1..MaxRuns, how \in UnhandledOutcomes : rep_unhandled(r, how))
    /\ WF_queue(on_repeated_spectrum)
    /\ WF_queue(save_repeated_results)

(***************************************************************************)
(* The continuous acquisition alone.  The thread and the event loop of the *)
(* command thread are scheduled by the operating system and by Qt: a step  *)
(* of either that stays possible is taken eventually.                      *)
(***************************************************************************)
InitCont ==
    /\ rf_pc = "idle" /\ rf_in = None /\ rf_out = Pending
    /\ InitSession
    /\ budget = MaxAcqCmds
    /\ avaspec = "installed"

NextCont ==
    \/ \E devices \in AcqDeviceLists : setup_connections(devices)
    \/ start_continuous(DefaultSettings)
    \/ stop_continuous
    \/ \E due \in BOOLEAN : on_continuous_spectrum(due)
    \/ cont_top
    \/ \E o \in DriverOutcomes : cont_measured(o)
    \/ cont_exit

SpecCont ==
    /\ InitCont /\ [][NextCont]_vars
    /\ WF_cont(cont_top)
    /\ WF_cont(\E o \in DriverOutcomes : cont_measured(o))
    /\ WF_cont(cont_exit)
    /\ WF_queue(\E due \in BOOLEAN : on_continuous_spectrum(due))

(***************************************************************************)
(* Every handler that stores a Spectrum, under a budget of two commands.    *)
(* The scans of a repeated run succeed here: a failing one stores nothing  *)
(* and ends the run (see rep_unhandled).                                   *)
(***************************************************************************)
MaxStoreCmds == 2

InitStore ==
    /\ rf_pc = "idle" /\ rf_in = None /\ rf_out = Pending
    /\ InitSession
    /\ budget = MaxStoreCmds
    /\ avaspec = "installed"

NextStore ==
    \/ \E devices \in AcqDeviceLists : setup_connections(devices)
    \/ \E key \in Slots, dlg \in DialogResults : load_calibration(key, dlg)
    \/ \E dlg \in DialogResults : load_results(dlg)
    \/ \E key \in Slots : measure_calibration(key)
    \/ \E o \in DriverOutcomes : mc_measured(o, "written")
    \/ measure_single
    \/ \E ch \in Channels, o \in DriverOutcomes : worker_measured(ch, o)
    \/ ms_join
    \/ start_continuous(DefaultSettings)
    \/ \E due \in BOOLEAN : on_continuous_spectrum(due)
    \/ cont_top
    \/ \E o \in DriverOutcomes : cont_measured(o)
    \/ \E count \in 1..MaxCount : start_repeated(count)
    \/ \E r \in 1..MaxRuns : rep_run(r)
    \/ \E r \in 1..MaxRuns : rep_measured(r, "scan")
    \/ on_repeated_spectrum
    \/ save_repeated_results

SpecStore == InitStore /\ [][NextStore]_vars

(***************************************************************************)
(* SpecLoad: calibration files of either channel loaded into a session     *)
(* that measures calibration spectra and fills the repeat buffers          *)
(***************************************************************************)
InitLoad ==
    /\ rf_pc = "idle" /\ rf_in = None /\ rf_out = Pending
    /\ InitSession
    /\ budget = MaxStoreCmds + 1
    /\ avaspec = "installed"

NextLoad ==
    \/ setup_connections(<<[ch |-> "VIS", result |-> "ok"]>>)
    \/ \E key \in Slots, dlg \in LoadDialogResults : load_calibration(key, dlg)
    \/ start_repeated(1)
    \/ \E r \in 1..MaxRuns : rep_run(r)
    \/ \E r \in 1..MaxRuns : rep_measured(r, "scan")
    \/ on_repeated_spectrum
    \/ save_repeated_results

SpecLoad == InitLoad /\ [][NextLoad]_vars

(***************************************************************************)
(* SpecSlot: measure_calibration with the scan and the write of the CSV    *)
(* file each succeeding or failing                                         *)
(***************************************************************************)
InitSlot ==
    /\ rf_pc = "idle" /\ rf_in = None /\ rf_out = Pending
    /\ InitSession
    /\ budget = MaxAcqCmds
    /\ avaspec = "installed"

NextSlot ==
    \/ \E devices \in AcqDeviceLists : setup_connections(devices)
    \/ \E key \in Slots : measure_calibration(key)
    \/ \E o \in DriverOutcomes, save \in SaveOutcomes : mc_measured(o, save)

SpecSlot == InitSlot /\ [][NextSlot]_vars

(***************************************************************************)
(* SpecSingle: connecting and measure_single with its two worker threads   *)
(***************************************************************************)
InitSingle ==
    /\ rf_pc = "idle" /\ rf_in = None /\ rf_out = Pending
    /\ InitSession
    /\ budget = MaxAcqCmds
    /\ avaspec = "installed"

NextSingle ==
    \/ \E devices \in DeviceLists : setup_connections(devices)
    \/ measure_single
    \/ \E ch \in Channels, o \in DriverOutcomes : worker_measured(ch, o)
    \/ ms_join

SpecSingle == InitSingle /\ [][NextSingle]_vars

(***************************************************************************)
(* SpecGate: the throttle gates of _on_continuous_spectrum over a sequence *)
(* of deliveries.  rf_in holds the clock reading and the two timestamps    *)
(* of the Controller, rf_out what the last delivery refreshed and, as      *)
(* history, when each refresh happened last and how long before that the   *)
(* one before it had happened (-1: there was none).                        *)
(***************************************************************************)
\* bound: time in ms the deliveries are followed for
MaxElapsed == 60

\* time.time() between two deliveries: it advances, stands still at the
\* clock's resolution, or is set back (it is the wall clock)
ClockSteps == {-5, 0, 5, 10, 50}

NoRefresh == [plotted |-> FALSE, recomputed |-> FALSE,
              prev_plot |-> -1, prev_refl |-> -1, plot_gap |-> -1, refl_gap |-> -1]

InitGate ==
    /\ rf_pc = "gates"
    /\ rf_in = [now |-> 1000, last_cont_plot |-> NewGates.last_cont_plot,
                last_refl_plot |-> NewGates.last_refl_plot]
    /\ rf_out = NoRefresh
    /\ InitSession
    /\ budget = MaxCmds
    /\ avaspec = "installed"

\* a spectrum is delivered dt ms after the one before
DeliverAt(dt) ==
    LET now == rf_in.now + dt
        res == throttle_gates(now, rf_in)
        gap(prev) == IF prev < 0 THEN -1 ELSE now - prev
    IN  /\ rf_pc = "gates"
        /\ now >= 1000 /\ now <= 1000 + MaxElapsed
        /\ rf_in' = [now |-> now, last_cont_plot |-> res.last_cont_plot,
                     last_refl_plot |-> res.last_refl_plot]
        /\ rf_out' = [plotted |-> res.plotted, recomputed |-> res.recomputed,
                      prev_plot |-> IF res.plotted THEN now ELSE rf_out.prev_plot,
                      prev_refl |-> IF res.recomputed THEN now ELSE rf_out.prev_refl,
                      plot_gap |-> IF res.plotted THEN gap(rf_out.prev_plot) ELSE -1,
                      refl_gap |-> IF res.recomputed THEN gap(rf_out.prev_refl) ELSE -1]
        /\ UNCHANGED <<rf_pc, sessVars, acqVars>>

NextGate == \E dt \in ClockSteps : DeliverAt(dt)

SpecGate == InitGate /\ [][NextGate]_vars

(***************************************************************************)
(* SpecSnap: the continuous acquisition while the user changes the         *)
(* settings and clicks start again                                         *)
(***************************************************************************)
InitSnap ==
    /\ rf_pc = "idle" /\ rf_in = None /\ rf_out = Pending
    /\ InitSession
    /\ budget = MaxAcqCmds
    /\ avaspec = "installed"

NextSnap ==
    \/ \E devices \in AcqDeviceLists : setup_connections(devices)
    \/ \E settings \in SettingsChoices : start_continuous(settings)
    \/ \E due \in BOOLEAN : on_continuous_spectrum(due)
    \/ cont_top
    \/ \E o \in DriverOutcomes : cont_measured(o)

SpecSnap == InitSnap /\ [][NextSnap]_vars

(***************************************************************************)
(* SpecConn: connecting and disconnecting, with the avaspec library        *)
(* installed or missing, while the continuous acquisition may be running   *)
(***************************************************************************)
\* bound: number of user commands while connections are looked at
MaxConnCmds == 3

InitConn ==
    /\ rf_pc = "idle" /\ rf_in = None /\ rf_out = Pending
    /\ InitSession
    /\ budget = MaxConnCmds
    /\ avaspec \in {"installed", "missing"}

\* AVS_GetList may report the two spectrometers in either order
DeviceListsAnyOrder ==
    DeviceLists
    \cup {<<[ch |-> "NIR", result |-> r1], [ch |-> "VIS", result |-> r2]>> :
            r1 \in DeviceResults, r2 \in DeviceResults}

NextConn ==
    \/ \E devices \in DeviceListsAnyOrder : setup_connections(devices)
    \/ \E silent \in BOOLEAN, raising \in SUBSET Channels, done_raises \in BOOLEAN :
          disconnect_spectrometers(silent, raising, done_raises)
    \/ start_continuous(DefaultSettings)
    \/ \E due \in BOOLEAN : on_continuous_spectrum(due)
    \/ cont_top
    \/ \E o \in DriverOutcomes : cont_measured(o)

SpecConn == InitConn /\ [][NextConn]_vars

(***************************************************************************)
(* SpecKeep: every operation of the session, started after calibration     *)
(* files were loaded                                                       *)
(***************************************************************************)
\* the file of Files that parses, and what load_calibration stores from the
\* file of a channel
VisFile == CHOOSE f \in Files : load_picked[f].ok
FileSpectrum == [ch \in Channels |->
                    load_picked[IF ch = "VIS" THEN VisFile ELSE NirFile].sp]

\* the slots load_calibration was called for before the session is looked at
LoadedSlots == {{"reference", "dark"}, {"reference", "dark", "sample"}}
Loaded(ch, keys) ==
    [reference |-> IF "reference" \in keys THEN FileSpectrum[ch] ELSE None,
     dark      |-> IF "dark" \in keys THEN FileSpectrum[ch] ELSE None,
     abs_cal   |-> IF "abs" \in keys THEN FileSpectrum[ch] ELSE None,
     sample    |-> IF "sample" \in keys THEN FileSpectrum[ch] ELSE None]

InitKeep ==
    /\ rf_pc = "idle" /\ rf_in = None /\ rf_out = Pending
    /\ \E keys \in [Channels -> LoadedSlots] :
          /\ assigned = keys
          /\ calib = [ch \in Channels |-> Loaded(ch, keys[ch])]
    /\ refl_plot = update_reflectance_plot(calib).plot
    /\ chan = [ch \in Channels |-> NewChannel]
    /\ dev = [ch \in Channels |-> NewDevice]
    /\ latest_sample = [ch \in Channels |-> None]
    /\ repeats_buffer = [ch \in Channels |-> <<>>]
    /\ log = <<>>
    /\ ui = IdleUi
    /\ worker = [ch \in Channels |-> NoWorker]
    /\ op = NoOp
    /\ cmds = 0
    /\ queue = <<>>
    /\ cont = NewContinuous
    /\ rep = <<>>
    /\ saves = <<>>
    /\ budget = MaxStoreCmds
    /\ avaspec = "installed"

NextKeep ==
    \/ \E devices \in AcqDeviceLists : setup_connections(devices)
    \/ \E silent \in BOOLEAN : disconnect_spectrometers(silent, {}, FALSE)
    \/ \E key \in Slots, dlg \in LoadDialogResults : load_calibration(key, dlg)
    \/ \E dlg \in DialogResults : load_results(dlg)
    \/ \E key \in Slots : measure_calibration(key)
    \/ \E o \in DriverOutcomes, save \in SaveOutcomes : mc_measured(o, save)
    \/ measure_single
    \/ \E ch \in Channels, o \in DriverOutcomes : worker_measured(ch, o)
    \/ ms_join
    \/ start_continuous(DefaultSettings)
    \/ \E due \in BOOLEAN : on_continuous_spectrum(due)
    \/ cont_top
    \/ \E o \in DriverOutcomes : cont_measured(o)
    \/ \E count \in 1..MaxCount : start_repeated(count)
    \/ \E r \in 1..MaxRuns : rep_run(r)
    \/ \E r \in 1..MaxRuns : rep_measured(r, "scan")
    \/ on_repeated_spectrum
    \/ save_repeated_results

SpecKeep == InitKeep /\ [][NextKeep]_vars

(***************************************************************************)
(* Properties of compute_reflectance (SpecRefl)                            *)
(***************************************************************************)
RfS == rf_in.sample
RfR == rf_in.reference
RfD == rf_in.dark

\* |a - b| <= 1e-8 nm + 1e-5 * |b|, in units of 0.001 nm
Tolerated(a, b) == 100000 * Abs(a - b) <= 1 + Abs(b)

GridsTolerated ==
    /\ Len(RfS.wavelength_nm) = Len(RfR.wavelength_nm)
    /\ Len(RfS.wavelength_nm) = Len(RfD.wavelength_nm)
    /\ \A i \in 1..Len(RfS.wavelength_nm) :
          /\ Tolerated(RfS.wavelength_nm[i], RfR.wavelength_nm[i])
          /\ Tolerated(RfS.wavelength_nm[i], RfD.wavelength_nm[i])

GridsIdentical ==
    /\ RfS.wavelength_nm = RfR.wavelength_nm
    /\ RfS.wavelength_nm = RfD.wavelength_nm

QuotEq(q, n, d) == q.den # 0 /\ d # 0 /\ q.num * d = n * q.den

ExampleInput ==
    [sample    |-> Sp(StdGrid(2), <<50, 60>>),
     reference |-> Sp(StdGrid(2), <<100, 100>>),
     dark      |-> Sp(StdGrid(2), <<0, 0>>)]

\* C10: for matching grids compute_reflectance does not raise and returns,
\* at every index i, (sample[i] - dark[i]) / (reference[i] - dark[i]) when
\* reference[i] - dark[i] # 0 and the not-a-number sentinel exactly where
\* that denominator is 0; sample [50,60], reference [100,100], dark [0,0]
\* gives [0.5, 0.6].
C10_Elementwise ==
    (rf_pc = "done" /\ GridsTolerated) =>
        /\ rf_out.ok
        /\ Len(rf_out.refl) = Len(RfS.counts)
        /\ \A i \in 1..Len(RfS.counts) :
              LET num == RfS.counts[i] - RfD.counts[i]
                  den == RfR.counts[i] - RfD.counts[i]
              IN  /\ den = 0 <=> rf_out.refl[i] = NaN
                  /\ den # 0 => QuotEq(rf_out.refl[i], num, den)
        /\ rf_in = ExampleInput =>
              QuotEq(rf_out.refl[1], 1, 2) /\ QuotEq(rf_out.refl[2], 3, 5)

\* a result that holds the sentinel at one index and a quotient at another
C10_Witness ==
    /\ rf_pc = "done"
    /\ rf_out.ok
    /\ \E i, j \in 1..Len(RfS.counts) :
          /\ RfR.counts[i] = RfD.counts[i]
          /\ rf_out.refl[i] = NaN
          /\ RfR.counts[j] # RfD.counts[j]
          /\ rf_out.refl[j] # NaN

(***************************************************************************)
(* Properties of the calibration handlers (SpecCal)                        *)
(***************************************************************************)
Required == {"reference", "dark", "sample"}

\* C6: in every reachable state is_complete_for_reflectance() is true of a
\* channel's CalibrationSet iff reference, dark and sample have all been
\* assigned (in any order, overwritten or not); the abs slot has no say.
C6_CompleteIffAssigned ==
    \A ch \in Channels :
        is_complete_for_reflectance(calib[ch]) <=> Required \subseteq assigned[ch]

\* one channel complete with abs never assigned, the other incomplete
\* although its abs slot is assigned
C6_Witness ==
    \E ch \in Channels :
        /\ is_complete_for_reflectance(calib[ch])
        /\ "abs" \notin assigned[ch]
        /\ ~ is_complete_for_reflectance(calib[Other(ch)])
        /\ "abs" \in assigned[Other(ch)]

\* C7: when load_calibration or measure_calibration has returned, every slot
\* it assigned was followed by an update_reflectance_plot that looked at both
\* channels and plotted the result for the slots as they are now; a load that
\* was cancelled or failed assigned nothing and recomputed nothing.
C7_RecomputeAfterMutation ==
    (ui.pc = "idle" /\ op.name \in {"load_calibration", "measure_calibration"}) =>
        /\ op.mutated =>
              /\ ~ op.stale
              /\ op.recomputes >= 1
              /\ op.considered = Channels
              /\ refl_plot = update_reflectance_plot(calib).plot
        /\ op.outcome \in {"cancelled", "failed"} =>
              ~ op.mutated /\ op.recomputes = 0

\* load_calibration returned after assigning a slot
C7_Witness ==
    /\ ui.pc = "idle"
    /\ op.name = "load_calibration"
    /\ op.outcome = "loaded"
    /\ op.mutated
    /\ op.recomputes = 1

Warnings(ch) ==
    Cardinality({i \in 1..Len(log) : log[i].lvl = "WARNING" /\ log[i].ch = ch})

GridsFit(cal) == compute_reflectance(cal.sample, cal.reference, cal.dark).ok

\* a handler has returned whose last act was update_reflectance_plot
JustRecomputed == ui.pc = "idle" /\ op.recomputes >= 1 /\ ~ op.stale

\* C8: after a reflectance recompute, per channel and whatever the other
\* channel's state: an incomplete CalibrationSet gives no reflectance and no
\* log line; a complete one with mismatching grids gives no reflectance and
\* exactly one warning; a complete one with matching grids gets its
\* reflectance plotted; a reflectance is plotted only for a complete set.
C8_ChannelsIndependent ==
    JustRecomputed =>
        \A ch \in Channels :
            /\ ~ is_complete_for_reflectance(calib[ch]) =>
                  refl_plot[ch] = None /\ Warnings(ch) = 0
            /\ (is_complete_for_reflectance(calib[ch]) /\ ~ GridsFit(calib[ch])) =>
                  refl_plot[ch] = None /\ Warnings(ch) = 1
            /\ (is_complete_for_reflectance(calib[ch]) /\ GridsFit(calib[ch])) =>
                  /\ refl_plot[ch] # None
                  /\ refl_plot[ch].lam = calib[ch].sample.wavelength_nm
                  /\ Warnings(ch) = 0

\* VIS is complete with mismatching grids, NIR's reflectance is plotted
C8_Witness ==
    /\ JustRecomputed
    /\ is_complete_for_reflectance(calib["VIS"])
    /\ ~ GridsFit(calib["VIS"])
    /\ Warnings("VIS") = 1
    /\ refl_plot["NIR"] # None

(***************************************************************************)
(* Properties of the acquisition threads (Spec, SpecRep)                   *)
(***************************************************************************)
\* number of single_measurement calls that are inside the driver on the
\* device of channel ch
InFlight(ch) ==
    (IF ui.pc = "mc_meas" /\ ui.ch = ch THEN 1 ELSE 0)
    + (IF ui.pc = "ms_join" /\ worker[ch].pc = "measuring" THEN 1 ELSE 0)
    + (IF cont.pc = "measuring" /\ cont.ch = ch THEN 1 ELSE 0)
    + Cardinality({r \in DOMAIN rep : rep[r].pc = "measuring" /\ rep[r].ch = ch})

\* C1: at no moment are two single_measurement calls in progress on the
\* device handle of one channel, whatever the interleaving of measure_single,
\* measure_calibration, the continuous loop and repeated runs.
C1_OneCallPerHandle ==
    Alive => \A ch \in Channels : InFlight(ch) <= 1

\* the repeated runs whose thread is inside run()
Running == {r \in DOMAIN rep : rep[r].pc \in {"measuring", "raised"}}

\* C2: at most one RepeatedAcquisitionThread is running at any time, however
\* often start_repeated is invoked.
C2_OneRepeatedRun ==
    Alive => Cardinality(Running) <= 1

\* the completion save of run r is the handler that ran last
JustSaved(r) ==
    ui.pc = "idle" /\ op.name = "_save_repeated_results" /\ op.run = r

Connected == {ch \in Channels : chan[ch].connected}

SavesBy(r, ch) == {k \in DOMAIN saves : saves[k].by = r /\ saves[k].ch = ch}

\* run r was started with exactly one channel connected and that is still
\* so; no measurement of it failed, it was not cancelled, and no other run
\* lasted at the same time
CleanSingleChannelRun(r) ==
    /\ Cardinality(rep[r].conn) = 1
    /\ Connected = rep[r].conn
    /\ ~ rep[r].failed
    /\ rep[r].running
    /\ rep[r].alone

\* C3: when a repeated run of count N with exactly one connected channel, no
\* failure, no cancellation and no overlapping run has completed, the
\* connected channel's buffer holds exactly N entries, the other channel's
\* none, and save_repeats_csv was called exactly once, for the connected
\* channel.
C3_SingleChannelRun ==
    \A r \in DOMAIN rep :
        (JustSaved(r) /\ CleanSingleChannelRun(r)) =>
            \A ch \in Channels :
                IF ch \in rep[r].conn
                THEN /\ Len(repeats_buffer[ch]) = rep[r].count
                     /\ Cardinality(SavesBy(r, ch)) = 1
                ELSE /\ repeats_buffer[ch] = <<>>
                     /\ SavesBy(r, ch) = {}

\* C4: whenever the completion save of a run executes, every entry of each
\* buffer it writes was produced by that same run; stated for the sessions
\* in which no measurement of a repeated run has failed.
C4_SaveOwnEntries ==
    (\A q \in DOMAIN rep : ~ rep[q].failed) =>
        \A k \in DOMAIN saves :
            \A j \in DOMAIN saves[k].cols : saves[k].cols[j].src.run = saves[k].by

\* the columns save_repeats_csv is to write for a buffer
Columns(buf) == [j \in DOMAIN buf |-> [src |-> buf[j].src, counts |-> buf[j].counts]]

RECURSIVE Gcd(_, _)
Gcd(a, b) == IF b = 0 THEN a ELSE Gcd(b, a % b)

\* a quotient of naturals in lowest terms
Lowest(n, d) == [num |-> n \div Gcd(n, d), den |-> d \div Gcd(n, d)]

\* the quotient q equals n / d
SameQuot(q, n, d) == q.den # 0 /\ d # 0 /\ Lowest(q.num, q.den) = Lowest(n, d)

SatEmpty == rf_in.counts = None \/ rf_in.counts = ndarray(<<>>)

\* C11: saturation_percent never raises; for a non-empty count vector it
\* returns max(counts) / full_scale * 100, for an empty or absent one 0;
\* [0, 8100, 16200] with full scale 16200 gives 100.
C11_Saturation ==
    rf_pc = "done" =>
        /\ rf_out.ok
        /\ SatEmpty => SameQuot(rf_out.value, 0, 1)
        /\ ~ SatEmpty =>
              LET c == rf_in.counts.data
              IN  \E i \in 1..Len(c) :
                      /\ \A j \in 1..Len(c) : c[j] <= c[i]
                      /\ SameQuot(rf_out.value, c[i] * 100, rf_in.full_scale)
        /\ (rf_in.counts = ndarray(<<0, 8100, 16200>>) /\ rf_in.full_scale = 16200) =>
              SameQuot(rf_out.value, 100, 1)

\* the result for [0, 8100, 16200] at full scale 16200
C11_Witness ==
    /\ rf_pc = "done"
    /\ rf_in.counts = ndarray(<<0, 8100, 16200>>)
    /\ rf_in.full_scale = 16200
    /\ SameQuot(rf_out.value, 100, 1)

(***************************************************************************)
(* Properties of the CSV repository (SpecCsv)                              *)
(***************************************************************************)
RoundTripDone == rf_pc = "done" /\ rf_in.fn = "roundtrip" /\ rf_out.saved.ok

\* C13: loading the file save_spectrum_csv wrote returns the wavelengths and
\* counts that were saved, element by element, and the channel that was
\* passed to the writer, whatever the wavelength range and the name hint.
C13_RoundTrip ==
    RoundTripDone =>
        /\ rf_out.loaded.ok
        /\ rf_out.loaded.sp.wavelength_nm = rf_in.spectrum.wavelength_nm
        /\ rf_out.loaded.sp.counts = rf_in.spectrum.counts
        /\ rf_out.loaded.chan = rf_in.channel

InferDone == rf_pc = "done" /\ rf_in.fn = "infer"

\* the file name starts with the prefix as it is written
StartsWith(name, prefix) ==
    Len(name) >= Len(prefix) /\ \A i \in 1..Len(prefix) : name[i] = prefix[i]

LowerCase(c) ==
    CASE c = "V" -> "v" [] c = "I" -> "i" [] c = "S" -> "s" [] c = "N" -> "n"
      [] c = "R" -> "r" [] c = "E" -> "e" [] c = "P" -> "p" [] OTHER -> c

\* the file name starts with the prefix in any mix of upper and lower case
StartsWithAnyCase(name, prefix) ==
    Len(name) >= Len(prefix)
    /\ \A i \in 1..Len(prefix) : name[i] \in {prefix[i], LowerCase(prefix[i])}

VisPrefixes == {<<"V", "I", "S", "_">>, <<"R", "E", "P", "_", "V", "I", "S", "_">>}
NirPrefixes == {<<"N", "I", "R", "_">>, <<"R", "E", "P", "_", "N", "I", "R", "_">>}

MaxBelowSplit(lam) == \A i \in 1..Len(lam) : lam[i] < 1050000

\* C14 as stated: a name starting with VIS_ or REP_VIS_ gives VIS and one
\* starting with NIR_ or REP_NIR_ gives NIR, whatever the data; every other
\* name gives VIS exactly when the largest wavelength is below 1050 nm.
C14_PrefixThenRange ==
    InferDone =>
        IF \E p \in VisPrefixes : StartsWith(rf_in.path, p) THEN rf_out.chan = "VIS"
        ELSE IF \E p \in NirPrefixes : StartsWith(rf_in.path, p) THEN rf_out.chan = "NIR"
        ELSE rf_out.chan = "VIS" <=> MaxBelowSplit(rf_in.lam)

\* C14 amended: the prefixes are recognised in any letter case.
C14_AnyCasePrefixThenRange ==
    InferDone =>
        IF \E p \in VisPrefixes : StartsWithAnyCase(rf_in.path, p) THEN rf_out.chan = "VIS"
        ELSE IF \E p \in NirPrefixes : StartsWithAnyCase(rf_in.path, p) THEN rf_out.chan = "NIR"
        ELSE rf_out.chan = "VIS" <=> MaxBelowSplit(rf_in.lam)

\* a lower-case prefix decides against a grid that reaches 1200 nm
C14_Witness ==
    /\ InferDone
    /\ rf_in.path = <<"v", "i", "s", "_">>
    /\ rf_in.lam = <<800000, 1200000>>
    /\ rf_out.chan = "VIS"

LoadDone == rf_pc = "done" /\ rf_in.fn = "load"

\* a non-numeric token, a line with fewer than two cells, or lines of
\* different widths
Malformed(f) ==
    \/ ~ f.numeric
    \/ \E i \in 1..Len(f.rows) : Len(f.rows[i]) < 2
    \/ \E i, j \in 1..Len(f.rows) : Len(f.rows[i]) # Len(f.rows[j])

\* C15: load_spectrum_csv raises, returning no Spectrum, for every file whose
\* data lines are not rows of two or more numeric columns; a file with one
\* numeric value per line is rejected.
C15_RejectsMalformed ==
    LoadDone /\ Malformed(rf_in.file) => ~ rf_out.ok /\ rf_out.sp = None

(***************************************************************************)
(* Properties of the stored spectra (SpecStore)                            *)
(***************************************************************************)
SameLength(sp) == sp # None => Len(sp.wavelength_nm) = Len(sp.counts)

\* C12: every Spectrum the session holds, in a calibration slot, in
\* latest_sample or in repeats_buffer, measured in any mode or loaded from a
\* file, has as many wavelengths as counts.
C12_EqualLengths ==
    \A ch \in Channels :
        /\ \A key \in Slots : SameLength(calib[ch][Field(key)])
        /\ SameLength(latest_sample[ch])
        /\ \A i \in 1..Len(repeats_buffer[ch]) : SameLength(repeats_buffer[ch][i])

\* a measured repeat in the buffer, its counts cut to the device's grid
C12_Witness ==
    \E ch \in Channels :
        /\ repeats_buffer[ch] # <<>>
        /\ Len(repeats_buffer[ch][1].counts) = Len(DevGrid(ch))
        /\ Len(repeats_buffer[ch][1].counts) < Len(ScopeData)

(***************************************************************************)
(* Properties of the load and measure handlers (SpecCal)                   *)
(***************************************************************************)
\* the dialog was cancelled, or load_spectrum_csv raises on the chosen file
LoadFails(dlg) == ~ dlg.picked \/ ~ load_spectrum_csv(dlg.file).ok

LoadStep(dlg) ==
    /\ cmds' = cmds + 1
    /\ op'.name \in {"load_calibration", "load_results"}
    /\ load_results(dlg) \/ \E key \in Slots : load_calibration(key, dlg)

\* C16: a load_calibration or load_results whose dialog is cancelled or whose
\* file does not parse leaves every calibration slot, latest_sample and
\* repeats_buffer of both channels as they were; when the file does not
\* parse, exactly one line, an error, is appended to the log.
C16_FailedLoadKeepsState ==
    [][\A dlg \in DialogResults :
          LoadStep(dlg) /\ LoadFails(dlg) =>
              /\ calib' = calib
              /\ latest_sample' = latest_sample
              /\ repeats_buffer' = repeats_buffer
              /\ dlg.picked => Len(log') = 1 /\ log'[1].lvl = "ERROR"]_vars

\* a file that does not parse was refused while a sample was loaded
C16_Witness ==
    /\ op.name = "load_results"
    /\ op.outcome = "failed"
    /\ Len(log) = 1
    /\ \E ch \in Channels : latest_sample[ch] # None /\ calib[ch].sample # None

\* measure_single returns from its join() calls with both channels connected
JoinStep ==
    /\ ui.pc = "ms_join" /\ ui'.pc = "idle"
    /\ \A ch \in Channels : chan[ch].connected

Logged(lg, lvl, ch) == \E i \in 1..Len(lg) : lg[i].lvl = lvl /\ lg[i].ch = ch

\* C17: in measure_single with both channels connected, a channel whose
\* measurement fails is logged as an error and keeps its latest_sample and
\* calib.sample, and the channel that succeeds has its new Spectrum stored in
\* latest_sample and calib.sample.
C17_SingleFailureIsolated ==
    [][JoinStep =>
          \A ch \in Channels :
              /\ worker[ch].result = Failed =>
                    /\ Logged(log', "ERROR", ch)
                    /\ latest_sample'[ch] = latest_sample[ch]
                    /\ calib'[ch].sample = calib[ch].sample
              /\ worker[ch].result # Failed =>
                    /\ worker[ch].result # None
                    /\ latest_sample'[ch] = worker[ch].result
                    /\ calib'[ch].sample = worker[ch].result]_vars

\* one channel failed and kept its earlier sample, the other one was stored
C17_Witness ==
    /\ op.name = "measure_single"
    /\ op.outcome = "returned"
    /\ \A ch \in Channels : chan[ch].connected /\ latest_sample[ch] # None
    /\ \E ch \in Channels :
          /\ Logged(log, "ERROR", ch)
          /\ Logged(log, "INFO", Other(ch))

(***************************************************************************)
(* Properties of the continuous acquisition (SpecCont)                     *)
(***************************************************************************)
\* an iteration of the running loop ended in an exception
Faulted == cont.fault # "" /\ cont.running

\* C18: an exception in an iteration never ends the continuous loop: while
\* the acquisition is not stopped, the thread is back at the head of the
\* loop and goes on to a next iteration.
C18_LoopSurvivesFault ==
    /\ [](Faulted => cont.pc = "top")
    /\ Faulted ~> (cont.fault = "" \/ ~ cont.running)

\* the NIR scan of a running acquisition raised
C18_Witness ==
    /\ Faulted
    /\ cont.fault = "NIR"
    /\ cont.pc = "top"

\* C19: in an iteration in which the measurement of one channel raises,
\* every other channel that has a device handle is still measured and its
\* spectrum emitted in that iteration, whichever of VIS and NIR raises.
C19_OtherChannelEmitted ==
    (cont.pc = "top" /\ cont.fault # "") =>
        \A ch \in Channels \ {cont.fault} :
            (has_handle(dev[ch]) /\ chan[ch].connected) => ch \in cont.emitted

(***************************************************************************)
(* Properties of the repeated run under a hardware error (SpecRep)         *)
(***************************************************************************)
\* C20: in a repeated run a hardware error of one channel's
\* single_measurement is caught where it occurs: no exception leaves run(),
\* and a run that was not stopped ends only after all its rounds, so that
\* the sibling channel, the remaining rounds and the completion save go on.
C20_RepeatFaultCaught ==
    \A r \in DOMAIN rep :
        rep[r].failed =>
            /\ rep[r].pc # "raised"
            /\ (rep[r].pc \in {"finished", "saved"} /\ rep[r].running) =>
                   rep[r].i >= rep[r].count

(***************************************************************************)
(* Properties: starting and stopping the continuous acquisition            *)
(***************************************************************************)
\* the loop of ContinuousAcquisitionThread.run is being executed
Looping == cont.pc \in {"top", "measuring"}

\* C21: once start_continuous has set the flag, and as long as no
\* stop_continuous clears it, the continuous loop is eventually running, also
\* when the start comes right after a stop while run() has not yet returned.
C21_StartedLoopRuns == cont.running ~> (Looping \/ ~ cont.running)

\* run() has left its loop or has returned
Left == cont.pc \in {"exiting", "not_running"}

\* C22: after stop_continuous cleared the flag, and unless a later start sets
\* it again, the loop test reads the cleared flag and run() returns (every
\* hardware call in flight returns); once the loop is left, no step puts a
\* further new_spectrum signal into the queue.
C22_StopTerminates ==
    /\ (~ cont.running) ~> (cont.pc = "not_running" \/ cont.running)
    /\ [][Left => Len(queue') <= Len(queue)]_vars

\* the loop ran and delivered a spectrum, was stopped and has returned
C22_Witness ==
    /\ ~ cont.running
    /\ cont.pc = "not_running"
    /\ \E ch \in Channels : latest_sample[ch] # None

\* C23: while the flag is cleared the loop begins no single_measurement call:
\* the only call that can still complete is the one that was in flight when
\* stop_continuous cleared the flag.
C23_NoCallAfterStop ==
    [][(~ cont.running /\ cont'.pc = "measuring")
         => (cont.pc = "measuring" /\ cont'.ch = cont.ch)]_vars

(***************************************************************************)
(* Properties: acquisition and the connection state                        *)
(***************************************************************************)
\* this step of the continuous loop begins a single_measurement call on ch
Begins(ch) ==
    /\ cont'.pc = "measuring" /\ cont'.ch = ch
    /\ ~ (cont.pc = "measuring" /\ cont.ch = ch)

\* C24: the acquisition loops measure only channels whose ChannelState is
\* connected: no iteration of the continuous loop begins a measurement on a
\* channel that is Disconnected, in particular not on one that
\* disconnect_spectrometers has left Disconnected.
C24_OnlyConnectedMeasured ==
    [][\A ch \in Channels : Begins(ch) => chan[ch].connected]_vars

\* C25: when disconnect_spectrometers has returned, both channels have
\* connected = FALSE and no serial; it raised nothing; AVS_StopMeasure was
\* called for exactly the devices that had a handle, and with the driver
\* library missing no driver call was made at all.
C25_DisconnectResets ==
    op.name = "disconnect_spectrometers"
    => /\ op.outcome = "returned" /\ Alive
       /\ \A ch \in Channels : ~ chan[ch].connected /\ chan[ch].serial = None
       /\ op.stopped = with_handle(dev)
       /\ avaspec = "missing" => op.stopped = {} /\ ~ op.done

\* both channels were connected and the continuous loop was measuring when
\* disconnect_spectrometers was called
C25_Witness ==
    /\ op.name = "disconnect_spectrometers"
    /\ op.stopped = Channels
    /\ cont.pc = "measuring"

\* the device list reports the spectrometer of ch and nothing fails for it
Healthy(devices, ch) ==
    \E i \in DOMAIN devices : devices[i].ch = ch /\ devices[i].result = "ok"

\* C26: setup_connections treats the channels independently: a channel whose
\* spectrometer is found, activated and answers the device-info query becomes
\* Connected whatever happens to the other one and in whatever order the
\* driver lists them; a channel that fails at any of these is left
\* Disconnected and the failure is logged.
C26_ConnectIndependent ==
    [][\A devices \in DeviceListsAnyOrder :
         (avaspec = "installed" /\ setup_connections(devices))
         => \A ch \in Channels :
              IF Healthy(devices, ch) THEN chan'[ch].connected
              ELSE /\ ~ chan'[ch].connected
                   /\ \E lvl \in {"WARNING", "ERROR"}, c \in {ch, ""} :
                         Logged(log', lvl, c)]_vars

(***************************************************************************)
(* Properties: single_measurement                                          *)
(***************************************************************************)
\* C27: single_measurement raises, returning no (wavelength, counts) pair,
\* when get_device_info was never called, when the handle is invalid, or when
\* AVS_PrepareMeasure, AVS_Measure or AVS_PollScan answers an error code.
C27_MeasurementFails ==
    rf_pc = "done"
    => LET d == rf_in.d
           drv == rf_in.drv
       IN  (\/ d.wavelengths = None
            \/ d.handle <= 0
            \/ drv.prepare < 0
            \/ drv.measure < 0
            \/ \E i \in DOMAIN drv.polls : drv.polls[i] < 0)
           => ~ rf_out.ok

(***************************************************************************)
(* Properties: measure_calibration                                         *)
(***************************************************************************)
\* number of save_spectrum_csv calls of the handler that wrote ch's file
Persisted(o, ch) == Cardinality({i \in DOMAIN o.saved : o.saved[i].ch = ch})

\* C28: in measure_calibration(slot) a measurement is issued only for a
\* connected channel; when it succeeds, the slot of that channel holds a
\* Spectrum whose role is the slot name and which exactly one
\* save_spectrum_csv call has written; for a channel that is not connected
\* an error is logged and the slot is left as it was.
C28_SlotMeasuredAndSaved ==
    /\ [](ui.pc = "mc_meas" => chan[ui.ch].connected)
    /\ [][\A save \in SaveOutcomes :
            mc_measured("scan", save)
            => /\ calib'[ui.ch][Field(ui.key)] # None
               /\ calib'[ui.ch][Field(ui.key)].role = ui.key
               /\ Persisted(op', ui.ch) = 1]_vars
    /\ [][\A key \in Slots :
            measure_calibration(key)
            => \A ch \in Channels :
                 ~ chan[ch].connected /\ ui'.pc = "idle"
                 => Logged(log', "ERROR", ch) /\ calib'[ch] = calib[ch]]_vars

(***************************************************************************)
(* Properties: latest_sample                                               *)
(***************************************************************************)
\* C29: latest_sample of a channel is the Spectrum acquired or loaded last
\* for that channel, whatever its role and whichever handler stored it: a
\* step that puts a Spectrum into a calibration slot or appends one to
\* repeats_buffer leaves that Spectrum in latest_sample too.
C29_LatestIsMostRecent ==
    [][\A ch \in Channels :
         /\ Len(repeats_buffer'[ch]) > Len(repeats_buffer[ch])
            => latest_sample'[ch] = repeats_buffer'[ch][Len(repeats_buffer'[ch])]
         /\ \A key \in Slots :
              calib'[ch][Field(key)] # calib[ch][Field(key)]
              => latest_sample'[ch] = calib'[ch][Field(key)]]_vars

(***************************************************************************)
(* Properties: the worker threads of measure_single                        *)
(***************************************************************************)
\* C30: while measure_single waits in join() there is a worker for exactly
\* the connected channels, and as long as one of them is still measuring no
\* step writes into the ChannelStates or lets the handler return.
C30_JoinBeforeWrite ==
    /\ [](ui.pc = "ms_join"
           => \A ch \in Channels : worker[ch].pc # "off" <=> chan[ch].connected)
    /\ [][(ui.pc = "ms_join" /\ \E ch \in Channels : worker[ch].pc = "measuring")
            => /\ ui'.pc = "ms_join"
               /\ UNCHANGED <<chan, calib, latest_sample, repeats_buffer>>]_vars

\* the VIS and the NIR measurement are in progress at the same time
C30_Witness ==
    /\ ui.pc = "ms_join"
    /\ \A ch \in Channels : worker[ch].pc = "measuring"

(***************************************************************************)
(* Properties: who writes the ChannelStates                                *)
(***************************************************************************)
\* a step of a single-measurement worker, of the continuous loop or of a
\* repeat loop
ThreadStep ==
    \/ \E ch \in Channels, o \in DriverOutcomes : worker_measured(ch, o)
    \/ cont_top
    \/ \E o \in DriverOutcomes : cont_measured(o)
    \/ \E r \in 1..MaxRuns : rep_run(r)
    \/ \E r \in 1..MaxRuns : rep_measured(r, "scan")

\* the signal e has been applied to the ChannelState of its channel
Applied(e) ==
    /\ e.kind = "new_spectrum"
       => latest_sample'[e.ch] = e.sp /\ calib'[e.ch].sample = e.sp
    /\ e.kind = "new_repeat"
       => repeats_buffer'[e.ch] = Append(repeats_buffer[e.ch], e.sp)

\* C31: calibration slots, latest_sample and repeats_buffer are written on
\* the command thread only: no step of a worker, of the continuous loop or of
\* a repeat loop changes them; the emitted results are applied one per step,
\* the oldest pending one first.
C31_SingleWriter ==
    /\ [][ThreadStep => UNCHANGED <<calib, latest_sample, repeats_buffer>>]_vars
    /\ [][queue' # queue /\ Len(queue') <= Len(queue)
            => queue' = Tail(queue) /\ Applied(Head(queue))]_vars

\* two results of one repeated run were applied while a later signal waits
C31_Witness ==
    \E ch \in Channels :
        /\ Len(repeats_buffer[ch]) >= 2
        /\ repeats_buffer[ch][1].src.idx < repeats_buffer[ch][2].src.idx
        /\ queue # <<>>

(***************************************************************************)
(* Properties: the throttle gates                                          *)
(***************************************************************************)
\* C32: two consecutive raw-plot refreshes are at least 10 ms apart and two
\* consecutive reflectance recomputes at least 50 ms apart (on the clock the
\* handler reads); each gate has its own timestamp, which changes only when
\* that gate passes, whatever the other gate does.
C32_GatesApart ==
    /\ [](rf_out.plotted /\ rf_out.plot_gap # -1 => rf_out.plot_gap >= CONT_INTERVAL_MS)
    /\ [](rf_out.recomputed /\ rf_out.refl_gap # -1 => rf_out.refl_gap >= REFL_INTERVAL_MS)
    /\ [][/\ rf_in'.last_cont_plot # rf_in.last_cont_plot => rf_out'.plotted
          /\ rf_in'.last_refl_plot # rf_in.last_refl_plot => rf_out'.recomputed
          /\ ~ rf_out'.plotted => rf_in'.last_cont_plot = rf_in.last_cont_plot
          /\ ~ rf_out'.recomputed => rf_in'.last_refl_plot = rf_in.last_refl_plot]_vars

\* a delivery that refreshed the raw plot a second time and not the
\* reflectance
C32_Witness ==
    /\ rf_pc = "gates"
    /\ rf_out.plotted /\ rf_out.plot_gap >= CONT_INTERVAL_MS
    /\ ~ rf_out.recomputed
    /\ rf_in.last_cont_plot # rf_in.last_refl_plot

(***************************************************************************)
(* Properties: settings_snapshot                                           *)
(***************************************************************************)
\* C33: the settings_snapshot of every Spectrum the continuous loop emits
\* equals the settings its single_measurement call was made with, also when
\* start_continuous is called again with other settings while that call is
\* in flight.
C33_SnapshotIsUsedSettings ==
    \A i \in DOMAIN queue :
        queue[i].kind = "new_spectrum"
        => queue[i].sp.settings_snapshot = queue[i].sp.measured_with

(***************************************************************************)
(* C34: the rounds of a repeated run, its cancellation and its end         *)
(***************************************************************************)
\* a run has left run(): it returned, or its finished signal was handled
Returned(run) == run.pc \in {"finished", "saved"}

\* the completion saves triggered for run r: finished signals waiting plus
\* the one already handled
Triggered(r) ==
    Cardinality({k \in DOMAIN queue : queue[k].kind = "finished" /\ queue[k].run = r})
        + (IF rep[r].pc = "saved" THEN 1 ELSE 0)

\* a round of run r begins in this step
RoundBegins(r) ==
    /\ r \in DOMAIN rep /\ r \in DOMAIN rep'
    /\ rep'[r].pc = "measuring"
    /\ rep[r].pc # "measuring" \/ rep'[r].i # rep[r].i

\* C34: a repeated run executes at most count rounds, and exactly count when
\* it is not cancelled and no measurement fails; once stop() has cleared the
\* flag no further round begins; the run terminates and its completion save
\* is triggered exactly once.
C34_RunBoundedAndSavedOnce ==
    /\ [](\A r \in DOMAIN rep :
            /\ rep[r].i <= rep[r].count
            /\ (Returned(rep[r]) /\ rep[r].running /\ ~ rep[r].failed)
                    => rep[r].i = rep[r].count
            /\ Triggered(r) <= 1)
    /\ [][\A r \in 1..MaxRuns :
            (r \in DOMAIN rep /\ ~ rep[r].running) => ~ RoundBegins(r)]_vars
    /\ \A r \in 1..MaxRuns :
            (r \in DOMAIN rep) ~> (r \in DOMAIN rep /\ rep[r].pc = "saved")

(***************************************************************************)
(* C35: what a successful load_calibration changes                         *)
(***************************************************************************)
\* the dialog handed back a file that load_spectrum_csv parses
LoadSucceeds(dlg) == dlg.picked /\ load_spectrum_csv(dlg.file).ok

\* C35: a successful load_calibration(slot) replaces exactly the named slot
\* of the channel inferred from the file with the loaded spectrum; the other
\* three slots of that channel, all four slots of the other channel, and
\* latest_sample and repeats_buffer of both channels are unchanged.
C35_LoadReplacesOneSlot ==
    [][\A key \in Slots, dlg \in LoadDialogResults :
          (load_calibration(key, dlg) /\ LoadSucceeds(dlg)) =>
              LET r == load_spectrum_csv(dlg.file)
              IN  /\ calib'[r.chan][Field(key)] = r.sp
                  /\ \A ch \in Channels, k \in Slots :
                        (ch # r.chan \/ k # key) =>
                            calib'[ch][Field(k)] = calib[ch][Field(k)]
                  /\ latest_sample' = latest_sample
                  /\ repeats_buffer' = repeats_buffer]_vars

\* a NIR dark file was loaded into a session that holds results of a
\* repeated run
C35_Witness ==
    /\ op.name = "load_calibration" /\ op.outcome = "loaded"
    /\ calib["NIR"].dark # None /\ calib["NIR"].reference = None
    /\ \E ch \in Channels : repeats_buffer[ch] # <<>>

(***************************************************************************)
(* C36: a failing measure_calibration                                      *)
(***************************************************************************)
\* C36: when measure_calibration(slot) fails for a channel, because the
\* measurement raises or because writing the CSV file raises, the slot of
\* that channel is left exactly as it was before the call and the failure
\* is logged for the channel.
C36_FailedMeasureKeepsSlot ==
    [][\A o \in DriverOutcomes, save \in SaveOutcomes :
          (mc_measured(o, save) /\ (o = "error" \/ save = "oserror"))
          => /\ calib'[ui.ch] = calib[ui.ch]
             /\ Logged(log', "ERROR", ui.ch)]_vars

(***************************************************************************)
(* C37: what _on_continuous_spectrum stores                                *)
(***************************************************************************)
\* no new_spectrum signal of channel ch waits for delivery
AllDelivered(ch) ==
    \A k \in DOMAIN queue : ~ (queue[k].kind = "new_spectrum" /\ queue[k].ch = ch)

\* C37: every spectrum delivered to _on_continuous_spectrum is stored into
\* latest_sample and calib.sample of its channel, whether or not the
\* throttle gates pass; when every emitted spectrum of a channel has been
\* delivered, both hold the spectrum the thread emitted last for it.
C37_DeliveredIsStored ==
    /\ [][\A due \in BOOLEAN :
            on_continuous_spectrum(due)
            => /\ latest_sample'[Head(queue).ch] = Head(queue).sp
               /\ calib'[Head(queue).ch].sample = Head(queue).sp]_vars
    /\ [](\A ch \in Channels :
            (cont.last[ch] # None /\ AllDelivered(ch))
            => /\ latest_sample[ch] = cont.last[ch]
               /\ calib[ch].sample = cont.last[ch])

\* a spectrum measured with the second settings was delivered while the
\* reflectance gate was closed and is the channel's latest sample
C37_Witness ==
    /\ op.name = "_on_continuous_spectrum" /\ op.recomputes = 0
    /\ \E ch \in Channels :
          /\ AllDelivered(ch)
          /\ latest_sample[ch] # None
          /\ latest_sample[ch].measured_with = 2
          /\ cont.settings[ch] = 1

(***************************************************************************)
(* C38: calibration slots are never emptied                                *)
(***************************************************************************)
\* C38: no operation resets a calibration slot that holds a Spectrum to
\* absent; a CalibrationSet that is complete for reflectance stays complete
\* across load, measure, continuous, repeated, disconnect and reconnect.
C38_SlotsNeverEmptied ==
    [][\A ch \in Channels :
          /\ \A k \in Slots :
                calib[ch][Field(k)] # None => calib'[ch][Field(k)] # None
          /\ is_complete_for_reflectance(calib[ch])
                => is_complete_for_reflectance(calib'[ch])]_vars

\* both channels were connected, VIS holds a complete set, and the
\* spectrometers have just been disconnected
C38_Witness ==
    /\ op.name = "disconnect_spectrometers" /\ op.stopped = Channels
    /\ is_complete_for_reflectance(calib["VIS"])
    /\ ~ is_complete_for_reflectance(calib["NIR"])

(***************************************************************************)
(* C39: what disconnect_spectrometers changes                              *)
(***************************************************************************)
\* a ChannelState without the two fields disconnect_spectrometers assigns
Kept(c) == [f \in DOMAIN c \ {"connected", "serial"} |-> c[f]]

\* C39: disconnect_spectrometers changes only connected and serial of the two
\* ChannelStates: calibration slots, latest_sample, repeats_buffer,
\* num_pixels and the wavelength grid of both channels are unchanged, and
\* with silent = True it appends nothing to the session log.
C39_DisconnectFrame ==
    [][\A silent \in BOOLEAN, raising \in SUBSET Channels, done_raises \in BOOLEAN :
          disconnect_spectrometers(silent, raising, done_raises)
          => /\ \A ch \in Channels :
                   /\ Kept(chan'[ch]) = Kept(chan[ch])
                   /\ chan'[ch].num_pixels = chan[ch].num_pixels
                   /\ chan'[ch].wavelength_nm_full = chan[ch].wavelength_nm_full
             /\ calib' = calib
             /\ latest_sample' = latest_sample
             /\ repeats_buffer' = repeats_buffer
             /\ silent => log' = <<>>]_vars

\* a silent disconnect of a session whose VIS channel was connected and has
\* a sample of the continuous acquisition
C39_Witness ==
    /\ op.name = "disconnect_spectrometers" /\ "VIS" \in op.stopped
    /\ log = <<>>
    /\ ~ chan["VIS"].connected /\ chan["VIS"].num_pixels >= 1
    /\ chan["VIS"].wavelength_nm_full # None
    /\ latest_sample["VIS"] # None /\ calib["VIS"].sample # None

(***************************************************************************)
(* C40: a connected channel is fully described                             *)
(***************************************************************************)
\* C40: whenever a command handler has returned, a channel with connected =
\* true has a serial, num_pixels >= 1, a captured wavelength grid of exactly
\* num_pixels entries, and a device whose handle is valid.
C40_ConnectedIsDescribed ==
    ui.pc = "idle" =>
        \A ch \in Channels :
            chan[ch].connected =>
                /\ chan[ch].serial # None
                /\ chan[ch].num_pixels >= 1
                /\ chan[ch].wavelength_nm_full # None
                /\ Len(chan[ch].wavelength_nm_full) = chan[ch].num_pixels
                /\ dev[ch].handle = "live"

\* a reconnect found the NIR spectrometer alone: its reset left the VIS
\* device, connected before, with a stale handle
C40_Witness ==
    /\ ui.pc = "idle" /\ op.name = "setup_connections"
    /\ chan["NIR"].connected /\ ~ chan["VIS"].connected
    /\ dev["VIS"].handle = "stale"

============================================================================
